---- MODULE Spec2Model ----
(***************************************************************************)
(* Session supervisor of claudia-server: the session registry, the process *)
(* lifecycle (start, natural exit, cancel, cleanup), the bounded output    *)
(* buffer fed by the two stream readers, and the websocket polling task    *)
(* that republishes buffer and status.                                     *)
(*                                                                         *)
(* Every action is one lock-protected section (or one await-free stretch)  *)
(* of the Rust code.  Who holds the registry RwLock and a session Mutex    *)
(* across an await is derived from the program counters of the tasks.      *)
(***************************************************************************)
EXTENDS Integers, Sequences, FiniteSets, TLC

\* ------------------------------------------------------------------ bounds
MaxSessions == 2      \* session ids handed out by start_session
MaxLines == 3         \* lines the child writes in the explored window
MaxTicks == 1         \* clock advances
MaxInbound == 2       \* text messages a client sends on one connection
MaxRecent == 5        \* largest `lines` argument of get_recent_output
MaxCleaners == 2      \* cleanup_completed_sessions calls that run at the same time
MaxTasks == 3         \* tasks that use the locks at the same time

\* ------------------------------------------------------- program constants
BufferCap == 1000     \* process.rs: "Keep only last 1000 lines"
GraceMinutes == 5     \* process.rs: age.num_minutes() > 5

Ids == 1..MaxSessions
Cleaners == 1..MaxCleaners
TickSeconds == 6 * 60      \* the clock advances in steps of six minutes
MaxTime == MaxTicks * TickSeconds
Streams == {"[STDOUT]", "[STDERR]"}

\* Option<T>: None is the empty tuple, Some(x) the one-element tuple.
None == << >>
Some(x) == << x >>

SessionStatus == {"Starting", "Running", "Completed", "Failed", "Cancelled", "Terminated"}
IsActive(status) == status \in {"Starting", "Running"}
IsTerminal(status) == status \in {"Completed", "Failed", "Cancelled", "Terminated"}

VARIABLES
    sessions,         \* ProcessManager.sessions: id -> SessionData (info + child slot)
    stats,            \* ProcessManager.stats
    output_buffer,    \* the Arc<Mutex<Vec<String>>> of each session
    now,              \* Utc::now(), in seconds
    proc,             \* the OS child process of each session
    startPc,          \* position of the start_session call that creates each id
    monPc,            \* position of the lifecycle task spawned for each id
    final_status,     \* its local final_status, between the wait and the stats block
    cancelPc,         \* per id: is a cancel_session call awaiting its kill
    cancelResult,     \* per id: what the last cancel_session(id) returned
    cancelSaw,        \* per id: the status that call found when it began (history)
    cancelSawAt,      \* per id: the completed_at that call found when it began (history)
    cleanupPc,        \* per caller: position of its cleanup_completed_sessions call
    sessions_to_remove, \* per caller: its local Vec
    cleaned,          \* per caller: what its last cleanup_completed_sessions returned
    cleanedSum,       \* the sum of all counts returned so far (history)
    removedSum,       \* the number of entries taken out of the registry so far (history)
    pipe,             \* lines written by the child and not yet read, per stream
    nread,            \* lines each stream reader has read so far
    appended,         \* every line ever pushed to each buffer, in push order (history)
    pollPc,           \* position of the websocket polling task of each session
    last_line_count,  \* its local
    outbox,           \* ServerMessages the polling tasks sent on tx, in order
    polledUpTo,       \* Len(appended) when the polling task last read the buffer (history)
    cancel_rx,        \* ids whose polling task has a stop signal waiting on its cancel channel
    hist,             \* per session: who set a terminal status / decremented active, and
                      \* the final_status its lifecycle task computed (history)
    reply,            \* per start request: what the HTTP / websocket handler answered on failure
    gotAfter,         \* per id: status get_session(id) gave the caller right after start_session
    recent,           \* the last get_recent_output call: its arguments and what it returned
    wsOpen,           \* is the websocket connection loop still running
    wsRecvd,          \* text messages the connection loop has received
    wsSent,           \* error events the connection loop wrote to the socket itself
    wsPc,             \* what the connection loop is at: <<"recv">> in its select, or
                      \* <<"start", id>> / <<"cancel", id>> inside a message handler
    active_sessions,  \* the connection's map: ids that have a cancel_tx in it
    wsFwd,            \* how many messages of the tx channel the loop has written to the socket
    listPc,           \* position of the list_sessions call
    listFilter,       \* was it called by list_active_sessions
    result,           \* its local Vec, and what it returned last
    listLog,          \* the status changes made while it ran, in order (history)
    lkOp,             \* per task: the operation it runs, seen as a user of the locks
    lkSid,            \* per task: the session that operation is about
    lkPc,             \* per task: its position in the operation's lock steps
    lkHeld,           \* per lock: the guards held, as << task, mode >>
    lkQueue           \* per lock: the tasks waiting for it, first come first

cancelVars == << cancelPc, cancelResult, cancelSaw, cancelSawAt >>
cleanupVars == << cleanupPc, sessions_to_remove, cleaned, cleanedSum, removedSum >>
outputVars == << output_buffer, pipe, nread, appended >>
pollVars == << pollPc, last_line_count, outbox, polledUpTo, cancel_rx >>
clientVars == << reply, gotAfter, recent >>
connVars == << wsOpen, wsRecvd, wsSent, wsPc, active_sessions, wsFwd >>
listVars == << listPc, listFilter, result, listLog >>
lockVars == << lkOp, lkSid, lkPc, lkHeld, lkQueue >>

vars == << sessions, stats, now, proc, startPc, monPc, final_status, hist,
           cancelVars, cleanupVars, outputVars, pollVars, clientVars, connVars,
           listVars, lockVars >>

Registered == DOMAIN sessions

\* ------------------------------------------------------------------- locks
\* cancel_session holds sessions.read() and the session's Mutex from the
\* take until it returns, across child.kill().await.  Whoever else wants
\* that Mutex (a second cancel_session of the same id included) waits, so
\* at most one call per id is past the take: callers need no identity.
SessionLocked(s) == cancelPc[s] = "kill"

\* The lifecycle task keeps its sessions.read() guard from the status update
\* to the end of the match arm, across stats.write().await.
RegistryReadHeld ==
    \/ \E s \in Ids : cancelPc[s] = "kill"
    \/ \E s \in Ids : monPc[s] = "stats"
    \/ listPc = "collect"

\* A status change made while a list_sessions call collects, as that call's
\* history keeps it.
LogStatus(s, from, to) ==
    IF listPc = "collect"
      THEN Append(listLog, [id |-> s, from |-> from, to |-> to])
      ELSE listLog

\* ------------------------------------------------------------- statistics
ZeroStats ==
    [active_sessions |-> 0, total_sessions |-> 0,
     completed_sessions |-> 0, failed_sessions |-> 0]

SaturatingSub(a, b) == IF a >= b THEN a - b ELSE 0

\* Fault variant: whatever did not complete is counted as failed.
UpdateStatsCancelAsFailed(st, status) ==
    [st EXCEPT !.active_sessions = SaturatingSub(@, 1),
               !.completed_sessions = IF status = "Completed" THEN @ + 1 ELSE @,
               !.failed_sessions = IF status # "Completed" THEN @ + 1 ELSE @]

\* update_stats_on_completion(status)
UpdateStatsOnCompletion(st, status) ==
    [st EXCEPT !.active_sessions = SaturatingSub(@, 1),
               !.completed_sessions = IF status = "Completed" THEN @ + 1 ELSE @,
               !.failed_sessions = IF status = "Failed" THEN @ + 1 ELSE @]

\* The stats block of the lifecycle task: the same arithmetic, written inline.
MonitorStatsUpdate(st, status) ==
    [st EXCEPT !.active_sessions = SaturatingSub(@, 1),
               !.completed_sessions = IF status = "Completed" THEN @ + 1 ELSE @,
               !.failed_sessions = IF status = "Failed" THEN @ + 1 ELSE @]

NoHist == [setByCancel |-> 0, setByMonitor |-> 0, decByCancel |-> 0,
           decByMonitor |-> 0, cancelTrue |-> 0, finalized |-> "none"]

\* ------------------------------------------------------ the locks as such
\* sessions: RwLock; stats: RwLock; one Mutex per SessionData; one Mutex per
\* output buffer.  The second component is the session, 0 for the two
\* locks of the ProcessManager.
Tasks == 1..MaxTasks
RegistryLock == << "sessions", 0 >>
StatsLock == << "stats", 0 >>
SessionLock(s) == << "session", s >>
BufferLock(s) == << "output_buffer", s >>
Locks ==
    {RegistryLock, StatsLock} \cup {SessionLock(s) : s \in Ids}
                              \cup {BufferLock(s) : s \in Ids}

\* The steps of an operation that concern the locks.  Acquire: a
\* .read().await, .write().await or .lock().await whose guard is kept.
\* Touch: one whose guard is dropped before the next await (the section
\* under it has no await of its own).  Drop: guards that go out of scope
\* together.  Await: an await on something that is not a lock.
Read(l) == [a |-> "acquire", l |-> l, m |-> "read", drop |-> {}]
Write(l) == [a |-> "acquire", l |-> l, m |-> "write", drop |-> {}]
Lock(l) == [a |-> "acquire", l |-> l, m |-> "write", drop |-> {}]
TouchRead(l) == [a |-> "touch", l |-> l, m |-> "read", drop |-> {}]
Touch(l) == [a |-> "touch", l |-> l, m |-> "write", drop |-> {}]
Drop(ls) == [a |-> "drop", l |-> << "-", 0 >>, m |-> "-", drop |-> ls]
Await == [a |-> "await", l |-> << "-", 0 >>, m |-> "-", drop |-> {}]

InitLocks ==
    /\ lkOp = [t \in Tasks |-> "idle"]
    /\ lkSid = [t \in Tasks |-> 1]
    /\ lkPc = [t \in Tasks |-> 1]
    /\ lkHeld = [l \in Locks |-> {}]
    /\ lkQueue = [l \in Locks |-> << >>]

\* ------------------------------------------------------------------- Init
InitCleanup ==
    /\ cleanupPc = [c \in Cleaners |-> "idle"]
    /\ sessions_to_remove = [c \in Cleaners |-> {}]
    /\ cleaned = [c \in Cleaners |-> 0]
    /\ cleanedSum = 0
    /\ removedSum = 0

InitLifecycle ==
    /\ sessions = << >>
    /\ stats = ZeroStats
    /\ now = 0
    /\ proc = [s \in Ids |-> "none"]
    /\ startPc = [s \in Ids |-> "idle"]
    /\ monPc = [s \in Ids |-> "none"]
    /\ final_status = [s \in Ids |-> "Running"]
    /\ cancelPc = [s \in Ids |-> "idle"]
    /\ cancelResult = [s \in Ids |-> "none"]
    /\ cancelSaw = [s \in Ids |-> "none"]
    /\ cancelSawAt = [s \in Ids |-> None]
    /\ InitCleanup
    /\ hist = [s \in Ids |-> NoHist]

InitOutput ==
    /\ output_buffer = [s \in Ids |-> << >>]
    /\ pipe = [s \in Ids |-> [t \in Streams |-> 0]]
    /\ nread = [s \in Ids |-> [t \in Streams |-> 0]]
    /\ appended = [s \in Ids |-> << >>]

InitPoll ==
    /\ pollPc = [s \in Ids |-> "none"]
    /\ last_line_count = [s \in Ids |-> 0]
    /\ outbox = << >>
    /\ polledUpTo = [s \in Ids |-> 0]
    /\ cancel_rx = {}

InitClient ==
    /\ reply = [s \in Ids |-> None]
    /\ gotAfter = [s \in Ids |-> None]
    /\ recent = None

InitWs ==
    /\ wsOpen = TRUE
    /\ wsRecvd = 0
    /\ wsSent = << >>
    /\ wsPc = << "recv" >>
    /\ active_sessions = {s \in Ids : pollPc[s] # "none"}
    /\ wsFwd = 0

InitListing ==
    /\ listPc = "idle"
    /\ listFilter = FALSE
    /\ result = << >>
    /\ listLog = << >>

Init ==
    /\ InitLifecycle /\ InitOutput /\ InitPoll /\ InitClient /\ InitWs /\ InitListing
    /\ InitLocks

\* ---------------------------------------------------------- start_session
\* Ids come from Uuid::new_v4(): each call draws one no call drew before.
FreshId(s) == startPc[s] = "idle" /\ \A r \in Ids : r < s => startPc[r] # "idle"

\* Fault variant: the info is stored as it was built, before the spawn.
NewSessionDataStarting(s, t) ==
    [status |-> "Starting", pid |-> None, started_at |-> t,
     completed_at |-> None, exit_code |-> None, child |-> TRUE]

\* SessionData { info: updated_info, child: Some(child), .. }: the info with
\* the pid and the status Running that were assigned after the spawn.
NewSessionData(s, t) ==
    [status |-> "Running", pid |-> Some(s), started_at |-> t,
     completed_at |-> None, exit_code |-> None, child |-> TRUE]

\* cmd.spawn() succeeded: the child runs, nothing is registered yet.
StartSpawn(s) ==
    /\ FreshId(s)
    /\ startPc' = [startPc EXCEPT ![s] = "spawned"]
    /\ proc' = [proc EXCEPT ![s] = "running"]
    /\ UNCHANGED << sessions, stats, now, monPc, final_status, hist >>
    /\ UNCHANGED << cancelVars, cleanupVars, outputVars, pollVars, clientVars, connVars, listVars >>
    /\ UNCHANGED lockVars

\* Fault variant: the counters are bumped before the spawn is tried.
StartSpawnFailCounted(s) ==
    /\ FreshId(s)
    /\ startPc' = [startPc EXCEPT ![s] = "spawn_failed"]
    /\ stats' = [stats EXCEPT !.active_sessions = @ + 1, !.total_sessions = @ + 1]
    /\ UNCHANGED << sessions, now, proc, monPc, final_status, hist >>
    /\ UNCHANGED << cancelVars, cleanupVars, outputVars, pollVars, clientVars, connVars, listVars >>
    /\ UNCHANGED lockVars

\* cmd.spawn() failed: the `?` returns the error, the id is dropped.
StartSpawnFail(s) ==
    /\ FreshId(s)
    /\ startPc' = [startPc EXCEPT ![s] = "spawn_failed"]
    /\ UNCHANGED << sessions, stats, now, proc, monPc, final_status, hist >>
    /\ UNCHANGED << cancelVars, cleanupVars, outputVars, pollVars, clientVars, connVars, listVars >>
    /\ UNCHANGED lockVars

\* sessions.write(): insert the SessionData (status Running, child Some).
StartInsert(s) ==
    /\ startPc[s] = "spawned"
    /\ ~RegistryReadHeld
    /\ sessions' = sessions @@ (s :> NewSessionData(s, now))
    /\ startPc' = [startPc EXCEPT ![s] = "inserted"]
    /\ UNCHANGED << stats, now, proc, monPc, final_status, hist >>
    /\ UNCHANGED << cancelVars, cleanupVars, outputVars, pollVars, clientVars, connVars, listVars >>
    /\ UNCHANGED lockVars

\* stats.write(): active_sessions += 1; total_sessions += 1.
StartStats(s) ==
    /\ startPc[s] = "inserted"
    /\ stats' = [stats EXCEPT !.active_sessions = @ + 1, !.total_sessions = @ + 1]
    /\ startPc' = [startPc EXCEPT ![s] = "counted"]
    /\ UNCHANGED << sessions, now, proc, monPc, final_status, hist >>
    /\ UNCHANGED << cancelVars, cleanupVars, outputVars, pollVars, clientVars, connVars, listVars >>
    /\ UNCHANGED lockVars

\* monitor_session_output(): tokio::spawn the lifecycle task, return Ok(id).
StartMonitor(s) ==
    /\ startPc[s] = "counted"
    /\ startPc' = [startPc EXCEPT ![s] = "done"]
    /\ monPc' = [monPc EXCEPT ![s] = "take"]
    /\ UNCHANGED << sessions, stats, now, proc, final_status, hist >>
    /\ UNCHANGED << cancelVars, cleanupVars, outputVars, pollVars, clientVars, connVars, listVars >>
    /\ UNCHANGED lockVars

\* ------------------------------------------- the callers of start_session
\* ServerMessage::Error { message, code }; of the message, the text before
\* the formatted argument.
ErrorEvent(message, code) == [type |-> "error", message |-> message, code |-> code]

\* What the HTTP handler answers: Err(StatusCode).
HttpValidationError == [status |-> "BAD_REQUEST"]
HttpSpawnError == [status |-> "INTERNAL_SERVER_ERROR"]

\* Fault variant: the path check reports as start_session's own error does.
WsValidationErrorAsSpawn == ErrorEvent("Failed to spawn Claude", "HANDLER_ERROR")

\* What the connection loop sends when handle_client_message returned Err(e):
\* e.to_string() with the code HANDLER_ERROR, for either error.
WsValidationError == ErrorEvent("Project path does not exist", "HANDLER_ERROR")
WsSpawnError == ErrorEvent("Failed to spawn Claude", "HANDLER_ERROR")

\* POST /sessions with a project_path that does not exist: rejected before
\* start_session is called.  s names the request; no id is drawn for it.
HttpStartInvalid(s) ==
    /\ FreshId(s)
    /\ startPc' = [startPc EXCEPT ![s] = "rejected"]
    /\ reply' = [reply EXCEPT ![s] = Some(HttpValidationError)]
    /\ UNCHANGED << sessions, stats, now, proc, monPc, final_status, hist, gotAfter, recent >>
    /\ UNCHANGED << cancelVars, cleanupVars, outputVars, pollVars, connVars, listVars >>
    /\ UNCHANGED lockVars

\* A start_session message with a project_path that does not exist.
WsStartInvalid(s) ==
    /\ FreshId(s)
    /\ startPc' = [startPc EXCEPT ![s] = "rejected"]
    /\ reply' = [reply EXCEPT ![s] = Some(WsValidationError)]
    /\ UNCHANGED << sessions, stats, now, proc, monPc, final_status, hist, gotAfter, recent >>
    /\ UNCHANGED << cancelVars, cleanupVars, outputVars, pollVars, connVars, listVars >>
    /\ UNCHANGED lockVars

\* The Err arm of the HTTP handler, after start_session failed to spawn.
HttpStartFailed(s) ==
    /\ startPc[s] = "spawn_failed"
    /\ reply[s] = None
    /\ reply' = [reply EXCEPT ![s] = Some(HttpSpawnError)]
    /\ UNCHANGED << sessions, stats, now, proc, startPc, monPc, final_status, hist, gotAfter, recent >>
    /\ UNCHANGED << cancelVars, cleanupVars, outputVars, pollVars, connVars, listVars >>
    /\ UNCHANGED lockVars

\* The `?` of handle_start_session, after start_session failed to spawn.
WsStartFailed(s) ==
    /\ startPc[s] = "spawn_failed"
    /\ reply[s] = None
    /\ reply' = [reply EXCEPT ![s] = Some(WsSpawnError)]
    /\ UNCHANGED << sessions, stats, now, proc, startPc, monPc, final_status, hist, gotAfter, recent >>
    /\ UNCHANGED << cancelVars, cleanupVars, outputVars, pollVars, connVars, listVars >>
    /\ UNCHANGED lockVars

\* get_session(id): Some(info), or None for an id that is not registered.
GetSession(s) == IF s \in Registered THEN Some(sessions[s]) ELSE None

\* The caller of start_session calls get_session(id) with the id it was
\* given, as the first thing it does; it keeps the status it is shown.
GetAfterStart(s) ==
    /\ startPc[s] = "done"
    /\ gotAfter[s] = None
    /\ s \in Registered => ~SessionLocked(s)
    /\ LET got == GetSession(s) IN
         gotAfter' = [gotAfter EXCEPT ![s] =
                         Some(IF got = None THEN None ELSE Some(got[1].status))]
    /\ UNCHANGED << sessions, stats, now, proc, startPc, monPc, final_status, hist, reply, recent >>
    /\ UNCHANGED << cancelVars, cleanupVars, outputVars, pollVars, connVars, listVars >>
    /\ UNCHANGED lockVars

\* ------------------------------------------------------- the child process
\* The child ends on its own; how it ended is learnt by whoever waits for it.
ChildExit(s) ==
    /\ proc[s] = "running"
    /\ proc' = [proc EXCEPT ![s] = "exited"]
    /\ UNCHANGED << sessions, stats, now, startPc, monPc, final_status, hist >>
    /\ UNCHANGED << cancelVars, cleanupVars, outputVars, pollVars, clientVars, connVars, listVars >>
    /\ UNCHANGED lockVars

\* ---------------------------------------------------------- lifecycle task
\* Fault variant: the lifecycle task goes on without a handle of its own.
TookChildAlways(data) == TRUE

\* `if let Some(mut child) = child`: did the take give the task a handle.
TookChild(data) == data.child

\* data.child.take() by the lifecycle task; the stream readers are spawned
\* when it got the handle, and the task ends at once when it did not.
MonitorTake(s) ==
    /\ monPc[s] = "take"
    /\ IF s \notin Registered
         THEN /\ monPc' = [monPc EXCEPT ![s] = "returned"]
              /\ UNCHANGED sessions
         ELSE /\ ~SessionLocked(s)
              /\ sessions' = [sessions EXCEPT ![s].child = FALSE]
              /\ monPc' = [monPc EXCEPT ![s] =
                              IF TookChild(sessions[s]) THEN "wait" ELSE "returned"]
    /\ UNCHANGED << stats, now, proc, startPc, final_status, hist >>
    /\ UNCHANGED << cancelVars, cleanupVars, outputVars, pollVars, clientVars, connVars, listVars >>
    /\ UNCHANGED lockVars

ReadersSpawned(s) == monPc[s] \in {"wait", "stats", "done"}

\* What child.wait().await can return for a child that ended: Ok(status) with
\* exit code 0, with a non-zero exit code, with no code (killed by a signal),
\* or Err.
WaitResults == {"exit_ok", "exit_fail", "exit_signal", "wait_err"}

\* status.success() / status.code() of the wait result.
FinalStatus(w) == IF w = "exit_ok" THEN "Completed" ELSE "Failed"
FinalExitCode(w) ==
    CASE w = "exit_ok" -> Some(0)
      [] w = "exit_fail" -> Some(1)
      [] OTHER -> None

\* Fault variant: the Ok arm records the exit code and the time, not the status.
FinalizedInfoKeepsStatus(info, w, t) ==
    IF w = "wait_err"
      THEN [info EXCEPT !.status = "Failed", !.completed_at = Some(t)]
      ELSE [info EXCEPT !.completed_at = Some(t), !.exit_code = FinalExitCode(w)]

\* Fault variant: the Err arm only logs.
FinalizedInfoErrIgnored(info, w, t) ==
    IF w = "wait_err"
      THEN info
      ELSE [info EXCEPT !.status = FinalStatus(w), !.completed_at = Some(t),
                        !.exit_code = FinalExitCode(w)]

\* The info the lifecycle task writes once child.wait() returned: both arms
\* set status and completed_at; only the Ok arm assigns exit_code.
FinalizedInfo(info, w, t) ==
    IF w = "wait_err"
      THEN [info EXCEPT !.status = "Failed", !.completed_at = Some(t)]
      ELSE [info EXCEPT !.status = FinalStatus(w), !.completed_at = Some(t),
                        !.exit_code = FinalExitCode(w)]

\* child.wait() returned w; sessions.read(), the session's lock, update the
\* info if the session is still registered.
MonitorFinalize(s, w) ==
    /\ monPc[s] = "wait"
    /\ proc[s] \in {"exited", "killed"}
    /\ IF s \in Registered
         THEN /\ ~SessionLocked(s)
              /\ sessions' = [sessions EXCEPT ![s] = FinalizedInfo(@, w, now)]
              /\ hist' = [hist EXCEPT ![s].setByMonitor = @ + 1,
                                      ![s].finalized = FinalStatus(w)]
              /\ listLog' = LogStatus(s, sessions[s].status, sessions'[s].status)
         ELSE /\ hist' = [hist EXCEPT ![s].finalized = FinalStatus(w)]
              /\ UNCHANGED << sessions, listLog >>
    /\ proc' = [proc EXCEPT ![s] = "reaped"]
    /\ final_status' = [final_status EXCEPT ![s] = FinalStatus(w)]
    /\ monPc' = [monPc EXCEPT ![s] = "stats"]
    /\ UNCHANGED << stats, now, startPc, listPc, listFilter, result >>
    /\ UNCHANGED << cancelVars, cleanupVars, outputVars, pollVars, clientVars, connVars >>
    /\ UNCHANGED lockVars

\* stats.write(): the counters, after the session's lock was released; the
\* task ends.
MonitorStats(s) ==
    /\ monPc[s] = "stats"
    /\ stats' = MonitorStatsUpdate(stats, final_status[s])
    /\ hist' = [hist EXCEPT ![s].decByMonitor = @ + 1]
    /\ monPc' = [monPc EXCEPT ![s] = "done"]
    /\ final_status' = [final_status EXCEPT ![s] = "Running"]
    /\ UNCHANGED << sessions, now, proc, startPc >>
    /\ UNCHANGED << cancelVars, cleanupVars, outputVars, pollVars, clientVars, connVars, listVars >>
    /\ UNCHANGED lockVars

\* --------------------------------------------------------- cancel_session
\* sessions.get(session_id) is None: Ok(false).
CancelNotFound(s) ==
    /\ s \notin Registered
    /\ cancelResult' = [cancelResult EXCEPT ![s] = "false"]
    /\ cancelSaw' = [cancelSaw EXCEPT ![s] = "absent"]
    /\ cancelSawAt' = [cancelSawAt EXCEPT ![s] = None]
    /\ UNCHANGED << sessions, stats, now, proc, startPc, monPc, final_status, hist, cancelPc >>
    /\ UNCHANGED << cleanupVars, outputVars, pollVars, clientVars, connVars, listVars >>
    /\ UNCHANGED lockVars

\* Fault variant: the cancel path does not test the slot.
HasChildAlways(data) == TRUE

\* `if let Some(mut child) = data.child.take()`: is there a handle to take.
HasChild(data) == data.child

\* data.child.take() is None: Ok(false).
CancelNotActive(s) ==
    /\ s \in Registered
    /\ ~SessionLocked(s)
    /\ ~HasChild(sessions[s])
    /\ cancelResult' = [cancelResult EXCEPT ![s] = "false"]
    /\ cancelSaw' = [cancelSaw EXCEPT ![s] = sessions[s].status]
    /\ cancelSawAt' = [cancelSawAt EXCEPT ![s] = sessions[s].completed_at]
    /\ UNCHANGED << sessions, stats, now, proc, startPc, monPc, final_status, hist, cancelPc >>
    /\ UNCHANGED << cleanupVars, outputVars, pollVars, clientVars, connVars, listVars >>
    /\ UNCHANGED lockVars

\* Fault variant: the handle is borrowed (as_mut) instead of taken.
SlotLeftFull == TRUE

\* What is left in the slot after data.child.take().
SlotAfterTake == FALSE

\* Fault variant: the cancel path forgets completed_at.
CancelledInfoNoTime(info, t) == [info EXCEPT !.status = "Cancelled"]

\* "Update status": the two assignments made before the kill.
CancelledInfo(info, t) ==
    [info EXCEPT !.status = "Cancelled", !.completed_at = Some(t)]

\* data.child.take() is Some(child): mark the session, then await the kill
\* with the session's lock and the registry's read lock still held.
CancelTake(s) ==
    /\ s \in Registered
    /\ ~SessionLocked(s)
    /\ HasChild(sessions[s])
    /\ sessions' = [sessions EXCEPT ![s] = [CancelledInfo(@, now) EXCEPT !.child = SlotAfterTake]]
    /\ hist' = [hist EXCEPT ![s].setByCancel = @ + 1]
    /\ cancelPc' = [cancelPc EXCEPT ![s] = "kill"]
    /\ cancelResult' = [cancelResult EXCEPT ![s] = "pending"]
    /\ cancelSaw' = [cancelSaw EXCEPT ![s] = sessions[s].status]
    /\ cancelSawAt' = [cancelSawAt EXCEPT ![s] = sessions[s].completed_at]
    /\ listLog' = LogStatus(s, sessions[s].status, sessions'[s].status)
    /\ UNCHANGED << stats, now, proc, startPc, monPc, final_status, listPc, listFilter, result >>
    /\ UNCHANGED << cleanupVars, outputVars, pollVars, clientVars, connVars >>
    /\ UNCHANGED lockVars

\* child.kill().await returned Ok: count the completion, return Ok(true).
CancelKillOk(s) ==
    /\ cancelPc[s] = "kill"
    /\ proc' = [proc EXCEPT ![s] = IF @ = "running" THEN "killed" ELSE @]
    /\ stats' = UpdateStatsOnCompletion(stats, "Cancelled")
    /\ hist' = [hist EXCEPT ![s].decByCancel = @ + 1, ![s].cancelTrue = @ + 1]
    /\ cancelResult' = [cancelResult EXCEPT ![s] = "true"]
    /\ cancelPc' = [cancelPc EXCEPT ![s] = "idle"]
    /\ UNCHANGED << sessions, now, startPc, monPc, final_status, cancelSaw, cancelSawAt >>
    /\ UNCHANGED << cleanupVars, outputVars, pollVars, clientVars, connVars, listVars >>
    /\ UNCHANGED lockVars

\* child.kill().await returned Err: return the error, nothing is undone.
CancelKillErr(s) ==
    /\ cancelPc[s] = "kill"
    /\ cancelResult' = [cancelResult EXCEPT ![s] = "error"]
    /\ cancelPc' = [cancelPc EXCEPT ![s] = "idle"]
    /\ UNCHANGED << sessions, stats, now, proc, startPc, monPc, final_status, hist, cancelSaw, cancelSawAt >>
    /\ UNCHANGED << cleanupVars, outputVars, pollVars, clientVars, connVars, listVars >>
    /\ UNCHANGED lockVars

\* ------------------------------------- list_sessions, list_active_sessions
\* data.info.clone(), with the id that is part of the info.
InfoOf(s) ==
    [id |-> s, status |-> sessions[s].status, started_at |-> sessions[s].started_at,
     completed_at |-> sessions[s].completed_at, exit_code |-> sessions[s].exit_code]

RECURSIVE InsertNewestFirst(_, _)
\* e goes behind every element that started no earlier than e.
InsertNewestFirst(sorted, e) ==
    IF sorted = << >> THEN << e >>
    ELSE IF Head(sorted).started_at >= e.started_at
      THEN << Head(sorted) >> \o InsertNewestFirst(Tail(sorted), e)
      ELSE << e >> \o sorted

RECURSIVE SortOldestFirst(_)
\* Fault variant: the comparison the other way round.
SortOldestFirst(infos) ==
    IF infos = << >> THEN << >>
    ELSE LET rest == SortOldestFirst(Tail(infos))
             e == Head(infos)
             before == SelectSeq(rest, LAMBDA x : x.started_at < e.started_at)
             after == SelectSeq(rest, LAMBDA x : x.started_at >= e.started_at)
         IN before \o << e >> \o after

RECURSIVE SortNewestFirst(_)
\* result.sort_by(|a, b| b.started_at.cmp(&a.started_at)): a stable sort,
\* latest start first.
SortNewestFirst(infos) ==
    IF infos = << >> THEN << >>
    ELSE InsertNewestFirst(SortNewestFirst(SubSeq(infos, 1, Len(infos) - 1)),
                           infos[Len(infos)])

\* .filter(|session| matches!(session.status, Starting | Running))
FilterActive(infos) == SelectSeq(infos, LAMBDA x : IsActive(x.status))

\* Ids already pushed to result.
Visited == {result[i].id : i \in 1..Len(result)}

\* sessions.read(); result = Vec::new().  active tells whether the call was
\* made by list_active_sessions, which filters what it returns.
ListBegin(active) ==
    /\ listPc = "idle"
    /\ listPc' = "collect"
    /\ listFilter' = active
    /\ result' = << >>
    /\ listLog' = << >>
    /\ UNCHANGED << sessions, stats, now, proc, startPc, monPc, final_status, hist >>
    /\ UNCHANGED << cancelVars, cleanupVars, outputVars, pollVars, clientVars, connVars >>
    /\ UNCHANGED lockVars

\* One turn of the loop over sessions.values(), in the map's own order: lock
\* the session, push a clone of its info.
ListVisit(s) ==
    /\ listPc = "collect"
    /\ s \in Registered \ Visited
    /\ ~SessionLocked(s)
    /\ result' = Append(result, InfoOf(s))
    /\ UNCHANGED << listPc, listFilter, listLog >>
    /\ UNCHANGED << sessions, stats, now, proc, startPc, monPc, final_status, hist >>
    /\ UNCHANGED << cancelVars, cleanupVars, outputVars, pollVars, clientVars, connVars >>
    /\ UNCHANGED lockVars

\* The loop is through: sort, filter for list_active_sessions, return.
ListEnd ==
    /\ listPc = "collect"
    /\ Visited = Registered
    /\ result' = IF listFilter
                   THEN FilterActive(SortNewestFirst(result))
                   ELSE SortNewestFirst(result)
    /\ listPc' = "idle"
    /\ UNCHANGED << listFilter, listLog >>
    /\ UNCHANGED << sessions, stats, now, proc, startPc, monPc, final_status, hist >>
    /\ UNCHANGED << cancelVars, cleanupVars, outputVars, pollVars, clientVars, connVars >>
    /\ UNCHANGED lockVars

\* --------------------------------------------- cleanup_completed_sessions
\* chrono's Duration::num_minutes(): whole minutes of a span of seconds.
NumMinutes(seconds) == seconds \div 60

\* Fault variant: the scan does not look at the age.
ShouldRemoveNoGrace(info, t) ==
    /\ IsTerminal(info.status)
    /\ info.completed_at # None

\* Fault variant: the scan goes by the age since the start, whatever the status.
ShouldRemoveAnyStatus(info, t) ==
    NumMinutes(t - info.started_at) > GraceMinutes

\* The test of the scan loop on one session.
ShouldRemove(info, t) ==
    /\ IsTerminal(info.status)
    /\ info.completed_at # None
    /\ NumMinutes(t - info.completed_at[1]) > GraceMinutes

\* The scan under sessions.read(); with nothing to remove the call returns 0.
CleanupScan(c) ==
    /\ cleanupPc[c] = "idle"
    /\ \A s \in Registered : ~SessionLocked(s)
    /\ LET found == {s \in Registered : ShouldRemove(sessions[s], now)} IN
         /\ sessions_to_remove' = [sessions_to_remove EXCEPT ![c] = found]
         /\ IF found = {}
              THEN /\ cleaned' = [cleaned EXCEPT ![c] = 0]
                   /\ UNCHANGED cleanupPc
              ELSE /\ cleanupPc' = [cleanupPc EXCEPT ![c] = "remove"]
                   /\ UNCHANGED cleaned
    /\ UNCHANGED << cleanedSum, removedSum >>
    /\ UNCHANGED << sessions, stats, now, proc, startPc, monPc, final_status, hist >>
    /\ UNCHANGED << cancelVars, outputVars, pollVars, clientVars, connVars, listVars >>
    /\ UNCHANGED lockVars

\* The value assigned to stats.active_sessions: the futures the map builds are
\* collected and counted, never awaited.
RecountActive(remaining) == Cardinality(DOMAIN remaining)

\* `cleaned += 1` for every id of sessions_to_remove, whatever
\* sessions.remove(id) returned.
CleanedCount(to_remove, registered) == Cardinality(to_remove)

\* sessions.write(): remove what the scan found, reset active_sessions.
CleanupRemove(c) ==
    /\ cleanupPc[c] = "remove"
    /\ ~RegistryReadHeld
    /\ LET remaining == [s \in Registered \ sessions_to_remove[c] |-> sessions[s]] IN
         /\ sessions' = remaining
         /\ stats' = [stats EXCEPT !.active_sessions = RecountActive(remaining)]
    /\ cleaned' = [cleaned EXCEPT ![c] = CleanedCount(sessions_to_remove[c], Registered)]
    /\ cleanedSum' = cleanedSum + CleanedCount(sessions_to_remove[c], Registered)
    /\ removedSum' = removedSum + Cardinality(sessions_to_remove[c] \cap Registered)
    /\ sessions_to_remove' = [sessions_to_remove EXCEPT ![c] = {}]
    /\ cleanupPc' = [cleanupPc EXCEPT ![c] = "idle"]
    /\ UNCHANGED << now, proc, startPc, monPc, final_status, hist >>
    /\ UNCHANGED << cancelVars, outputVars, pollVars, clientVars, connVars, listVars >>
    /\ UNCHANGED lockVars

\* -------------------------------------------------------------------- time
Tick ==
    /\ now + TickSeconds <= MaxTime
    /\ now' = now + TickSeconds
    /\ UNCHANGED << sessions, stats, proc, startPc, monPc, final_status, hist >>
    /\ UNCHANGED << cancelVars, cleanupVars, outputVars, pollVars, clientVars, connVars, listVars >>
    /\ UNCHANGED lockVars

\* Five and a half minutes: a step of the clock that ends inside the sixth
\* minute.
ShortTick == GraceMinutes * 60 + 30

TickShort ==
    /\ now + ShortTick <= MaxTime
    /\ now' = now + ShortTick
    /\ UNCHANGED << sessions, stats, proc, startPc, monPc, final_status, hist >>
    /\ UNCHANGED << cancelVars, cleanupVars, outputVars, pollVars, clientVars, connVars, listVars >>
    /\ UNCHANGED lockVars

\* ----------------------------------------------------------- child output
\* Lines the child has written so far on both streams, read or not.
Written(s) == Len(appended[s]) + pipe[s]["[STDOUT]"] + pipe[s]["[STDERR]"]

\* The model follows a stream for MaxLines lines from its start, and for
\* MaxLines lines from the point where the buffer is one short of full.
Prefilled == BufferCap - 1
WindowStart(n) == IF n >= Prefilled THEN Prefilled ELSE 0

\* The child writes one more line to stdout or stderr.
ChildWrite(s, t) ==
    /\ proc[s] = "running"
    /\ Written(s) < WindowStart(Written(s)) + MaxLines
    /\ pipe' = [pipe EXCEPT ![s][t] = @ + 1]
    /\ UNCHANGED << sessions, stats, now, proc, startPc, monPc, final_status, hist >>
    /\ UNCHANGED << output_buffer, nread, appended >>
    /\ UNCHANGED << cancelVars, cleanupVars, pollVars, clientVars, connVars, listVars >>
    /\ UNCHANGED lockVars

\* format!("[STDOUT] {}", line): the tag and the text; the text of the k-th
\* line of a stream is k.
Tagged(t, k) == << t, k >>

\* Fault variant: push without the trim.
PushLineNoDrain(buffer, line) == Append(buffer, line)

\* Fault variant: the trim cuts the newest lines (truncate) instead of the oldest.
PushLineKeepOldest(buffer, line) ==
    LET pushed == Append(buffer, line) IN
      IF Len(pushed) > BufferCap THEN SubSeq(pushed, 1, BufferCap) ELSE pushed

\* buffer.push(line); if buffer.len() > 1000 { buffer.drain(0..len - 1000) }
PushLine(buffer, line) ==
    LET pushed == Append(buffer, line) IN
      IF Len(pushed) > BufferCap
        THEN SubSeq(pushed, Len(pushed) - BufferCap + 1, Len(pushed))
        ELSE pushed

\* Fault variant: one lock for all sessions, held by a cancel that awaits.
AppendBlockedByCancel(s) == \E a \in Ids \ {s} : cancelPc[a] = "kill"

\* The reader owns a clone of the buffer's Arc and locks that Mutex alone;
\* nobody holds it across an await.
AppendBlocked(s) == FALSE

\* One turn of a stream reader's loop: next_line() gave a line; under the
\* buffer's lock push it and trim the buffer.
ReaderAppend(s, t) ==
    /\ ReadersSpawned(s)
    /\ ~AppendBlocked(s)
    /\ pipe[s][t] > 0
    /\ LET line == Tagged(t, nread[s][t] + 1) IN
         /\ output_buffer' = [output_buffer EXCEPT ![s] = PushLine(@, line)]
         /\ appended' = [appended EXCEPT ![s] = Append(@, line)]
    /\ pipe' = [pipe EXCEPT ![s][t] = @ - 1]
    /\ nread' = [nread EXCEPT ![s][t] = @ + 1]
    /\ UNCHANGED << sessions, stats, now, proc, startPc, monPc, final_status, hist >>
    /\ UNCHANGED << cancelVars, cleanupVars, pollVars, clientVars, connVars, listVars >>
    /\ UNCHANGED lockVars

\* ------------------------------------------- websocket.rs polling task
SessionOutput(s, line) ==
    [type |-> "session_output", session_id |-> s, line |-> line]
\* Fault variant: the completion event leaves the exit code out.
SessionCompletedNoCode(s, info) ==
    [type |-> "session_completed", session_id |-> s,
     status |-> info.status, exit_code |-> None]

SessionCompleted(s, info) ==
    [type |-> "session_completed", session_id |-> s,
     status |-> info.status, exit_code |-> info.exit_code]

\* get_session_output(id): the buffer's content, None for an unknown id.
GetSessionOutput(s) == IF s \in Registered THEN Some(output_buffer[s]) ELSE None

\* Fault variant: asking for more lines than there are gives nothing.
GetRecentOutputStrict(s, lines) ==
    LET got == GetSessionOutput(s) IN
      IF got = None \/ Len(got[1]) < lines
        THEN None
        ELSE Some(SubSeq(got[1], Len(got[1]) - lines + 1, Len(got[1])))

\* get_recent_output(id, lines): output[start..] with start = len - lines,
\* or 0 when the buffer has no more than `lines` entries.
GetRecentOutput(s, lines) ==
    LET got == GetSessionOutput(s) IN
      IF got = None
        THEN None
        ELSE LET output == got[1]
                 start == IF Len(output) > lines THEN Len(output) - lines ELSE 0
             IN Some(SubSeq(output, start + 1, Len(output)))

\* An id that start_session never handed out.
NoSuchId == MaxSessions + 1

\* A client calls get_recent_output(id, lines).
RecentOutputCall(s, lines) ==
    /\ s \in Registered => ~SessionLocked(s)
    /\ recent' = Some([id |-> s, lines |-> lines, output |-> GetRecentOutput(s, lines)])
    /\ UNCHANGED << sessions, stats, now, proc, startPc, monPc, final_status, hist, reply, gotAfter >>
    /\ UNCHANGED << cancelVars, cleanupVars, outputVars, pollVars, connVars, listVars >>
    /\ UNCHANGED lockVars

\* &output[last_line_count..], one SessionOutput each.
NewLines(s, output, last) ==
    [i \in 1..(Len(output) - last) |-> SessionOutput(s, output[last + i])]

\* The sleep elapsed: read the buffer, send what lies past last_line_count.
\* tx.send fails once the connection loop has ended and dropped rx: the
\* line is lost and `monitoring` is cleared.
PollOutput(s) ==
    /\ pollPc[s] = "sleep"
    /\ s \in Registered => ~SessionLocked(s)
    /\ LET got == GetSessionOutput(s) IN
         IF got # None /\ Len(got[1]) > last_line_count[s]
           THEN /\ outbox' = IF wsOpen
                               THEN outbox \o NewLines(s, got[1], last_line_count[s])
                               ELSE outbox
                /\ last_line_count' = [last_line_count EXCEPT ![s] = Len(got[1])]
                /\ pollPc' = [pollPc EXCEPT ![s] = IF wsOpen THEN "check" ELSE "check_last"]
           ELSE /\ UNCHANGED << outbox, last_line_count >>
                /\ pollPc' = [pollPc EXCEPT ![s] = "check"]
    /\ polledUpTo' = [polledUpTo EXCEPT ![s] =
                         IF s \in Registered THEN Len(appended[s]) ELSE @]
    /\ UNCHANGED cancel_rx
    /\ UNCHANGED << sessions, stats, now, proc, startPc, monPc, final_status, hist >>
    /\ UNCHANGED << cancelVars, cleanupVars, outputVars, clientVars, connVars, listVars >>
    /\ UNCHANGED lockVars

\* Fault variant: the loop goes on after the completion event.
AfterCompletionKeepsPolling == "sleep"

\* `monitoring = false` after the completion event: the while loop ends.
AfterCompletion == "stopped"

\* "Check if session completed": a status other than Starting or Running
\* sends SessionCompleted and ends the loop; so does an unknown id, and so
\* does a cleared `monitoring`.
PollStatus(s) ==
    /\ pollPc[s] \in {"check", "check_last"}
    /\ s \in Registered => ~SessionLocked(s)
    /\ LET got == GetSession(s) IN
         IF got = None
           THEN /\ pollPc' = [pollPc EXCEPT ![s] = "stopped"]
                /\ UNCHANGED outbox
           ELSE IF ~IsActive(got[1].status)
             THEN /\ outbox' = IF wsOpen
                                 THEN Append(outbox, SessionCompleted(s, got[1]))
                                 ELSE outbox
                  /\ pollPc' = [pollPc EXCEPT ![s] = AfterCompletion]
             ELSE /\ pollPc' = [pollPc EXCEPT ![s] =
                                   IF pollPc[s] = "check" THEN "sleep" ELSE "stopped"]
                  /\ UNCHANGED outbox
    /\ UNCHANGED << last_line_count, polledUpTo, cancel_rx >>
    /\ UNCHANGED << sessions, stats, now, proc, startPc, monPc, final_status, hist >>
    /\ UNCHANGED << cancelVars, cleanupVars, outputVars, clientVars, connVars, listVars >>
    /\ UNCHANGED lockVars

\* cancel_rx.recv() wins the select: the loop ends.
PollCancelled(s) ==
    /\ pollPc[s] = "sleep"
    /\ s \in cancel_rx
    /\ pollPc' = [pollPc EXCEPT ![s] = "stopped"]
    /\ cancel_rx' = cancel_rx \ {s}
    /\ UNCHANGED << last_line_count, outbox, polledUpTo >>
    /\ UNCHANGED << sessions, stats, now, proc, startPc, monPc, final_status, hist >>
    /\ UNCHANGED << cancelVars, cleanupVars, outputVars, clientVars, connVars, listVars >>
    /\ UNCHANGED lockVars

\* ------------------------------------------- websocket.rs connection loop
\* #[serde(tag = "type")] enum ClientMessage: the tags it knows.
ClientTags == {"start_session", "cancel_session", "get_sessions", "get_output", "ping"}

\* The texts a client sends: is it JSON at all, its "type", and whether the
\* fields that type requires are there.
InboundTexts ==
    { [json |-> FALSE, type |-> "", fields |-> FALSE],
      [json |-> TRUE, type |-> "restart_session", fields |-> TRUE],
      [json |-> TRUE, type |-> "cancel_session", fields |-> FALSE],
      [json |-> TRUE, type |-> "ping", fields |-> TRUE] }

\* serde_json::from_str::<ClientMessage>(&text): Some(tag) for Ok, None for Err.
ParseClientMessage(text) ==
    IF text.json /\ text.type \in ClientTags /\ text.fields
      THEN Some(text.type)
      ELSE None

Pong == [type |-> "pong"]

\* Fault variant: the parse failure is reported as a handler failure.
ParseErrorAsHandlerError == ErrorEvent("Invalid message format", "HANDLER_ERROR")

\* The event of the Err arm of the parse.
ParseError == ErrorEvent("Invalid message format", "PARSE_ERROR")

\* socket.recv() gave a text frame.  A text that does not parse is answered
\* on the socket and the loop goes on; a ping is answered with Pong on tx.
WsRecvText(text) ==
    /\ wsOpen
    /\ wsPc = << "recv" >>
    /\ wsRecvd < MaxInbound
    /\ wsRecvd' = wsRecvd + 1
    /\ LET parsed == ParseClientMessage(text) IN
         \/ /\ parsed = None
            /\ wsSent' = Append(wsSent, ParseError)
            /\ UNCHANGED outbox
         \/ /\ parsed = Some("ping")
            /\ outbox' = Append(outbox, Pong)
            /\ UNCHANGED wsSent
    /\ UNCHANGED << wsOpen, wsPc, active_sessions, wsFwd >>
    /\ UNCHANGED << pollPc, last_line_count, polledUpTo, cancel_rx >>
    /\ UNCHANGED << sessions, stats, now, proc, startPc, monPc, final_status, hist >>
    /\ UNCHANGED << cancelVars, cleanupVars, outputVars, clientVars, listVars >>
    /\ UNCHANGED lockVars

\* Fault variant: the connection ends without the cleanup loop.
CloseSignalsNone(active) == {}

\* "Cleanup": cancel_tx.send(()) for every entry of active_sessions.
CloseSignals(active) == active

\* socket.recv() gave a Close frame, an error or None: the loop breaks, every
\* polling task of the connection is sent its cancel, rx is dropped.
WsRecvClose ==
    /\ wsOpen
    /\ wsPc = << "recv" >>
    /\ wsOpen' = FALSE
    /\ cancel_rx' = cancel_rx \cup CloseSignals(active_sessions)
    /\ UNCHANGED << wsRecvd, wsSent, wsPc, active_sessions, wsFwd >>
    /\ UNCHANGED << pollPc, last_line_count, outbox, polledUpTo >>
    /\ UNCHANGED << sessions, stats, now, proc, startPc, monPc, final_status, hist >>
    /\ UNCHANGED << cancelVars, cleanupVars, outputVars, clientVars, listVars >>
    /\ UNCHANGED lockVars

\* ------------------------------------- websocket.rs start / cancel handlers
SessionStarted(s) == [type |-> "session_started", session_id |-> s]
SessionCancelled(s) == [type |-> "session_cancelled", session_id |-> s]

\* A start_session message whose project_path exists: handle_start_session
\* calls start_session, and the loop reads no other message until the
\* handler returns.
WsRecvStart(s) ==
    /\ wsOpen
    /\ wsPc = << "recv" >>
    /\ wsRecvd < MaxInbound
    /\ FreshId(s)
    /\ wsRecvd' = wsRecvd + 1
    /\ wsPc' = << "start", s >>
    /\ UNCHANGED << wsOpen, wsSent, active_sessions, wsFwd >>
    /\ UNCHANGED << sessions, stats, now, proc, startPc, monPc, final_status, hist >>
    /\ UNCHANGED << cancelVars, cleanupVars, outputVars, pollVars, clientVars, listVars >>
    /\ UNCHANGED lockVars

\* The steps of the start_session call the handler awaits.
WsStartCall(s) ==
    /\ wsPc = << "start", s >>
    /\ \/ StartSpawn(s)
       \/ StartSpawnFail(s)
       \/ StartInsert(s)
       \/ StartStats(s)
       \/ StartMonitor(s)

\* Fault variant: the polling task is started without the event.
AnnouncedLate(box, s) == box

\* tx.send(ServerMessage::SessionStarted { .. }), before the polling task exists.
Announced(box, s) == Append(box, SessionStarted(s))

\* start_session returned Ok(id): send SessionStarted, put a cancel_tx in
\* active_sessions, spawn the polling task, return to the loop.
WsStartOk(s) ==
    /\ wsPc = << "start", s >>
    /\ startPc[s] = "done"
    /\ outbox' = Announced(outbox, s)
    /\ active_sessions' = active_sessions \cup {s}
    /\ pollPc' = [pollPc EXCEPT ![s] = "sleep"]
    /\ wsPc' = << "recv" >>
    /\ UNCHANGED << wsOpen, wsRecvd, wsSent, wsFwd >>
    /\ UNCHANGED << last_line_count, polledUpTo, cancel_rx >>
    /\ UNCHANGED << sessions, stats, now, proc, startPc, monPc, final_status, hist >>
    /\ UNCHANGED << cancelVars, cleanupVars, outputVars, clientVars, listVars >>
    /\ UNCHANGED lockVars

\* start_session returned Err: the `?` hands it to the loop, which writes a
\* HANDLER_ERROR event to the socket.
WsStartErr(s) ==
    /\ wsPc = << "start", s >>
    /\ startPc[s] = "spawn_failed"
    /\ wsSent' = Append(wsSent, WsSpawnError)
    /\ wsPc' = << "recv" >>
    /\ UNCHANGED << wsOpen, wsRecvd, active_sessions, wsFwd >>
    /\ UNCHANGED << sessions, stats, now, proc, startPc, monPc, final_status, hist >>
    /\ UNCHANGED << cancelVars, cleanupVars, outputVars, pollVars, clientVars, listVars >>
    /\ UNCHANGED lockVars

\* A cancel_session message for a session the client was told of:
\* handle_cancel_session calls cancel_session, which has not returned yet.
WsRecvCancel(s) ==
    /\ wsOpen
    /\ wsPc = << "recv" >>
    /\ wsRecvd < MaxInbound
    /\ startPc[s] = "done"
    /\ cancelPc[s] = "idle"
    /\ wsRecvd' = wsRecvd + 1
    /\ wsPc' = << "cancel", s >>
    /\ cancelResult' = [cancelResult EXCEPT ![s] = "none"]
    /\ UNCHANGED << wsOpen, wsSent, active_sessions, wsFwd >>
    /\ UNCHANGED << cancelPc, cancelSaw, cancelSawAt >>
    /\ UNCHANGED << sessions, stats, now, proc, startPc, monPc, final_status, hist >>
    /\ UNCHANGED << cleanupVars, outputVars, pollVars, clientVars, listVars >>
    /\ UNCHANGED lockVars

\* The cancel_session call the handler awaits: its first step, and the
\* return of the kill.
WsCancelCall(s) ==
    /\ wsPc = << "cancel", s >>
    /\ \/ cancelResult[s] = "none" /\ CancelNotFound(s)
       \/ cancelResult[s] = "none" /\ CancelNotActive(s)
       \/ cancelResult[s] = "none" /\ CancelTake(s)
       \/ CancelKillOk(s)
       \/ CancelKillErr(s)

\* The event handle_cancel_session sends for what cancel_session returned.
CancelReply(s, returned) ==
    CASE returned = "true" -> SessionCancelled(s)
      [] returned = "false" ->
           ErrorEvent("Session was not running or already completed", "SESSION_NOT_ACTIVE")
      [] OTHER -> ErrorEvent("Failed to cancel session", "CANCEL_FAILED")

\* cancel_session returned: send the reply on tx, take the session's
\* cancel_tx out of active_sessions and signal the polling task.
WsCancelReply(s) ==
    /\ wsPc = << "cancel", s >>
    /\ cancelPc[s] = "idle"
    /\ cancelResult[s] \in {"true", "false", "error"}
    /\ outbox' = Append(outbox, CancelReply(s, cancelResult[s]))
    /\ active_sessions' = active_sessions \ {s}
    /\ cancel_rx' = IF s \in active_sessions THEN cancel_rx \cup {s} ELSE cancel_rx
    /\ wsPc' = << "recv" >>
    /\ UNCHANGED << wsOpen, wsRecvd, wsSent, wsFwd >>
    /\ UNCHANGED << pollPc, last_line_count, polledUpTo >>
    /\ UNCHANGED << sessions, stats, now, proc, startPc, monPc, final_status, hist >>
    /\ UNCHANGED << cancelVars, cleanupVars, outputVars, clientVars, listVars >>
    /\ UNCHANGED lockVars

\* rx.recv() wins the select: the loop writes the next message of the tx
\* channel to the socket.
WsForward ==
    /\ wsOpen
    /\ wsPc = << "recv" >>
    /\ wsFwd < Len(outbox)
    /\ wsFwd' = wsFwd + 1
    /\ UNCHANGED << wsOpen, wsRecvd, wsSent, wsPc, active_sessions >>
    /\ UNCHANGED << sessions, stats, now, proc, startPc, monPc, final_status, hist >>
    /\ UNCHANGED << cancelVars, cleanupVars, outputVars, pollVars, clientVars, listVars >>
    /\ UNCHANGED lockVars

\* ------------------------------------------- lock steps of the operations
\* The other session of the registry (the loops over sessions.values() visit
\* s and then this one).
OtherSession(s) == CHOOSE r \in Ids : r # s

\* start_session: the insert block, then the stats block.
StartLocks == << Touch(RegistryLock), Touch(StatsLock) >>

\* get_session, and the take of the lifecycle task: the registry, then the
\* session; both guards go at the end.
GetLocks(s) ==
    << Read(RegistryLock), Touch(SessionLock(s)), Drop({RegistryLock}) >>

\* list_sessions: the registry, then every session in turn.
ListLocks(s) ==
    << Read(RegistryLock), Touch(SessionLock(s)), Touch(SessionLock(OtherSession(s))),
       Drop({RegistryLock}) >>

\* Fault variant: cancel_session takes the statistics first and keeps them.
CancelLocksStatsFirst(s) ==
    << Write(StatsLock), Read(RegistryLock), Lock(SessionLock(s)), Await,
       Drop({StatsLock, SessionLock(s), RegistryLock}) >>

\* cancel_session with a handle to take: the registry, the session, the
\* kill, update_stats_on_completion; the guards of registry and session are
\* held to the end.
CancelLocks(s) ==
    << Read(RegistryLock), Lock(SessionLock(s)), Await, Touch(StatsLock),
       Drop({SessionLock(s), RegistryLock}) >>

\* get_session_output: the registry, the session, the buffer.
OutputLocks(s) ==
    << Read(RegistryLock), Lock(SessionLock(s)), Touch(BufferLock(s)),
       Drop({SessionLock(s), RegistryLock}) >>

\* get_stats.
StatsLocks == << TouchRead(StatsLock) >>

\* cleanup_completed_sessions: the scan as in list_sessions, then the write
\* guard of the registry and, inside it, the write guard of the statistics
\* (the session locks of the recount are never awaited).
CleanupLocks(s) ==
    ListLocks(s) \o << Write(RegistryLock), Touch(StatsLock), Drop({RegistryLock}) >>

\* The lifecycle task after the wait: the registry, the session (dropped at
\* the end of the inner block), the statistics; the registry's guard is held
\* to the end of the match arm.
FinalizeLocks(s) ==
    << Read(RegistryLock), Touch(SessionLock(s)), Touch(StatsLock),
       Drop({RegistryLock}) >>

\* A stream reader: the buffer's lock alone.
ReaderLocks(s) == << Touch(BufferLock(s)) >>

\* The operations; an iteration of a polling task is an "output" followed by
\* a "get", the take of a lifecycle task is a "get".
LockOps ==
    {"start", "get", "list", "cancel", "output", "stats", "cleanup",
     "finalize", "reader"}

\* The operations that are about one session.
SessionOps == LockOps \ {"start", "stats"}

LockSteps(op, s) ==
    CASE op = "start" -> StartLocks
      [] op = "get" -> GetLocks(s)
      [] op = "list" -> ListLocks(s)
      [] op = "cancel" -> CancelLocks(s)
      [] op = "output" -> OutputLocks(s)
      [] op = "stats" -> StatsLocks
      [] op = "cleanup" -> CleanupLocks(s)
      [] op = "finalize" -> FinalizeLocks(s)
      [] op = "reader" -> ReaderLocks(s)
      [] OTHER -> << >>

\* The step task t is at.
StepOf(t) == LockSteps(lkOp[t], lkSid[t])[lkPc[t]]

\* Is t in the queue of lock l.
Queued(t, l) == \E i \in 1..Len(lkQueue[l]) : lkQueue[l][i][1] = t
Waiting(t) == \E l \in Locks : Queued(t, l)

\* A read guard goes with other read guards, a write guard or a Mutex
\* guard with nothing.
Compatible(l, m) ==
    IF m = "read" THEN \A h \in lkHeld[l] : h[2] = "read" ELSE lkHeld[l] = {}

\* Task t goes on to its next step; after the last one it is idle again.
Advanced(t) ==
    IF lkPc[t] = Len(LockSteps(lkOp[t], lkSid[t]))
      THEN /\ lkOp' = [lkOp EXCEPT ![t] = "idle"]
           /\ lkPc' = [lkPc EXCEPT ![t] = 1]
           /\ lkSid' = [lkSid EXCEPT ![t] = 1]
      ELSE /\ lkPc' = [lkPc EXCEPT ![t] = @ + 1]
           /\ UNCHANGED << lkOp, lkSid >>

ProgramUnchanged ==
    /\ UNCHANGED << sessions, stats, now, proc, startPc, monPc, final_status, hist >>
    /\ UNCHANGED << cancelVars, cleanupVars, outputVars, pollVars, clientVars, connVars, listVars >>

\* An idle task is given an operation to run.
LockBegin(t, op, s) ==
    /\ lkOp[t] = "idle"
    /\ op \notin SessionOps => s = 1
    /\ lkOp' = [lkOp EXCEPT ![t] = op]
    /\ lkSid' = [lkSid EXCEPT ![t] = s]
    /\ lkPc' = [lkPc EXCEPT ![t] = 1]
    /\ UNCHANGED << lkHeld, lkQueue >>
    /\ ProgramUnchanged

\* .read().await / .write().await / .lock().await: tokio's locks are fair,
\* a request is granted at once only when nobody waits and the guards held
\* allow it; otherwise it joins the end of the queue.
LockAcquire(t) ==
    /\ lkOp[t] # "idle"
    /\ StepOf(t).a \in {"acquire", "touch"}
    /\ ~Waiting(t)
    /\ LET l == StepOf(t).l
           m == StepOf(t).m
       IN IF lkQueue[l] = << >> /\ Compatible(l, m)
            THEN /\ lkHeld' = IF StepOf(t).a = "acquire"
                                THEN [lkHeld EXCEPT ![l] = @ \cup {<< t, m >>}]
                                ELSE lkHeld
                 /\ Advanced(t)
                 /\ UNCHANGED lkQueue
            ELSE /\ lkQueue' = [lkQueue EXCEPT ![l] = Append(@, << t, m >>)]
                 /\ UNCHANGED << lkOp, lkSid, lkPc, lkHeld >>
    /\ ProgramUnchanged

\* The request at the head of a queue is granted as soon as the guards held
\* allow it.
LockGrant(l) ==
    /\ lkQueue[l] # << >>
    /\ LET t == Head(lkQueue[l])[1]
           m == Head(lkQueue[l])[2]
       IN /\ Compatible(l, m)
          /\ lkHeld' = IF StepOf(t).a = "acquire"
                         THEN [lkHeld EXCEPT ![l] = @ \cup {<< t, m >>}]
                         ELSE lkHeld
          /\ lkQueue' = [lkQueue EXCEPT ![l] = Tail(@)]
          /\ Advanced(t)
    /\ ProgramUnchanged

\* A guard goes out of scope.
LockDrop(t) ==
    /\ lkOp[t] # "idle"
    /\ StepOf(t).a = "drop"
    /\ lkHeld' = [l \in Locks |->
                     IF l \in StepOf(t).drop
                       THEN {h \in lkHeld[l] : h[1] # t}
                       ELSE lkHeld[l]]
    /\ Advanced(t)
    /\ UNCHANGED lkQueue
    /\ ProgramUnchanged

\* An await on something that is no lock (child.kill()) returns.
LockAwait(t) ==
    /\ lkOp[t] # "idle"
    /\ StepOf(t).a = "await"
    /\ Advanced(t)
    /\ UNCHANGED << lkHeld, lkQueue >>
    /\ ProgramUnchanged

\* ---------------------------------------------------------- specification
\* The supervisor: start, natural exit, cancel and cleanup of every session,
\* in every interleaving.  The children write no output here, and one
\* cleanup_completed_sessions call runs at a time.
Next ==
    \/ \E s \in Ids : StartSpawn(s)
    \/ \E s \in Ids : StartSpawnFail(s)
    \/ \E s \in Ids : StartInsert(s)
    \/ \E s \in Ids : StartStats(s)
    \/ \E s \in Ids : StartMonitor(s)
    \/ \E s \in Ids : ChildExit(s)
    \/ \E s \in Ids : MonitorTake(s)
    \/ \E s \in Ids, w \in WaitResults : MonitorFinalize(s, w)
    \/ \E s \in Ids : MonitorStats(s)
    \/ \E s \in Ids : CancelNotFound(s)
    \/ \E s \in Ids : CancelNotActive(s)
    \/ \E s \in Ids : CancelTake(s)
    \/ \E s \in Ids : CancelKillOk(s)
    \/ \E s \in Ids : CancelKillErr(s)
    \/ CleanupScan(1)
    \/ CleanupRemove(1)
    \/ Tick

Spec == Init /\ [][Next]_vars

\* Scheduling: the tokio runtime runs every task that is ready, its locks
\* are granted in FIFO order, and an awaited kill returns: a start_session
\* call past the spawn goes on to its end, a lifecycle task takes each of
\* its steps, a cancel_session call that awaits its kill gets an answer.
\* Clients, children and the clock are under no obligation.
Fairness ==
    \A s \in Ids :
      /\ WF_vars(StartInsert(s))
      /\ WF_vars(StartStats(s))
      /\ WF_vars(StartMonitor(s))
      /\ WF_vars(MonitorTake(s))
      /\ WF_vars(\E w \in WaitResults : MonitorFinalize(s, w))
      /\ WF_vars(MonitorStats(s))
      /\ WF_vars(CancelKillOk(s) \/ CancelKillErr(s))

SpecFair == Init /\ [][Next]_vars /\ Fairness

\* The callers of start_session: requests arrive over HTTP and the websocket,
\* are rejected, fail to spawn or start a session, whose child and lifecycle
\* task then run while the caller looks the session up.  Nobody cancels and
\* nothing is old enough to be cleaned up.
NextClient ==
    \/ \E s \in Ids : HttpStartInvalid(s)
    \/ \E s \in Ids : WsStartInvalid(s)
    \/ \E s \in Ids : StartSpawn(s)
    \/ \E s \in Ids : StartSpawnFail(s)
    \/ \E s \in Ids : HttpStartFailed(s)
    \/ \E s \in Ids : WsStartFailed(s)
    \/ \E s \in Ids : StartInsert(s)
    \/ \E s \in Ids : StartStats(s)
    \/ \E s \in Ids : StartMonitor(s)
    \/ \E s \in Ids : GetAfterStart(s)
    \/ \E s \in Ids : ChildExit(s)
    \/ \E s \in Ids : MonitorTake(s)
    \/ \E s \in Ids, w \in WaitResults : MonitorFinalize(s, w)
    \/ \E s \in Ids : MonitorStats(s)

SpecClient == Init /\ [][NextClient]_vars

\* The output path of one session: session 1 is running, its lifecycle task
\* holds the child and waits, a polling task watches it.  The stream has
\* carried either nothing yet or Prefilled lines (all of them on stdout),
\* and the polling task has either not polled yet or seen all of them.
PrefilledLines(n) == [i \in 1..n |-> Tagged("[STDOUT]", i)]

InitStream ==
    /\ sessions = (1 :> [NewSessionData(1, 0) EXCEPT !.child = FALSE])
    /\ stats = [ZeroStats EXCEPT !.active_sessions = 1, !.total_sessions = 1]
    /\ now = 0
    /\ proc = [s \in Ids |-> IF s = 1 THEN "running" ELSE "none"]
    /\ startPc = [s \in Ids |-> IF s = 1 THEN "done" ELSE "idle"]
    /\ monPc = [s \in Ids |-> IF s = 1 THEN "wait" ELSE "none"]
    /\ final_status = [s \in Ids |-> "Running"]
    /\ cancelPc = [s \in Ids |-> "idle"]
    /\ cancelResult = [s \in Ids |-> "none"]
    /\ cancelSaw = [s \in Ids |-> "none"]
    /\ cancelSawAt = [s \in Ids |-> None]
    /\ InitCleanup
    /\ hist = [s \in Ids |-> NoHist]
    /\ \E n \in {0, Prefilled} :
         /\ output_buffer = [s \in Ids |-> IF s = 1 THEN PrefilledLines(n) ELSE << >>]
         /\ appended = output_buffer
         /\ nread = [s \in Ids |-> [t \in Streams |->
                        IF s = 1 /\ t = "[STDOUT]" THEN n ELSE 0]]
         /\ pipe = [s \in Ids |-> [t \in Streams |-> 0]]
         /\ \E seen \in {0, n} :
              /\ last_line_count = [s \in Ids |-> IF s = 1 THEN seen ELSE 0]
              /\ polledUpTo = last_line_count
              /\ outbox = NewLines(1, SubSeq(output_buffer[1], 1, seen), 0)
    /\ pollPc = [s \in Ids |-> IF s = 1 THEN "sleep" ELSE "none"]
    /\ cancel_rx = {}
    /\ InitClient
    /\ InitWs
    /\ InitListing
    /\ InitLocks

NextStream ==
    \/ \E s \in Ids, t \in Streams : ChildWrite(s, t)
    \/ \E s \in Ids, t \in Streams : ReaderAppend(s, t)
    \/ \E s \in Ids : ChildExit(s)
    \/ \E s \in Ids, w \in WaitResults : MonitorFinalize(s, w)
    \/ \E s \in Ids : MonitorStats(s)
    \/ \E s \in Ids : PollOutput(s)
    \/ \E s \in Ids : PollStatus(s)

SpecStream == InitStream /\ [][NextStream]_vars

\* Listing against the lifecycle: two registered sessions, started at the
\* same time or six minutes apart, the first watched by its lifecycle task,
\* the second with its handle still in the slot; they end or are cancelled
\* while list_sessions and list_active_sessions run.
InitList ==
    /\ \E t \in {0, MaxTime} :
         /\ sessions = (1 :> [NewSessionData(1, 0) EXCEPT !.child = FALSE])
                          @@ (2 :> NewSessionData(2, t))
         /\ now = t
    /\ stats = [ZeroStats EXCEPT !.active_sessions = 2, !.total_sessions = 2]
    /\ proc = [s \in Ids |-> IF s \in {1, 2} THEN "running" ELSE "none"]
    /\ startPc = [s \in Ids |-> IF s \in {1, 2} THEN "done" ELSE "idle"]
    /\ monPc = [s \in Ids |-> IF s = 1 THEN "wait" ELSE IF s = 2 THEN "take" ELSE "none"]
    /\ final_status = [s \in Ids |-> "Running"]
    /\ cancelPc = [s \in Ids |-> "idle"]
    /\ cancelResult = [s \in Ids |-> "none"]
    /\ cancelSaw = [s \in Ids |-> "none"]
    /\ cancelSawAt = [s \in Ids |-> None]
    /\ InitCleanup
    /\ hist = [s \in Ids |-> NoHist]
    /\ InitOutput
    /\ InitPoll
    /\ InitClient
    /\ InitWs
    /\ InitListing
    /\ InitLocks

NextList ==
    \/ \E active \in BOOLEAN : ListBegin(active)
    \/ \E s \in Ids : ListVisit(s)
    \/ ListEnd
    \/ \E s \in Ids : ChildExit(s)
    \/ \E s \in Ids : MonitorTake(s)
    \/ \E s \in Ids, w \in WaitResults : MonitorFinalize(s, w)
    \/ \E s \in Ids : MonitorStats(s)
    \/ \E s \in Ids : CancelNotActive(s)
    \/ \E s \in Ids : CancelTake(s)
    \/ \E s \in Ids : CancelKillOk(s)
    \/ \E s \in Ids : CancelKillErr(s)

SpecList == InitList /\ [][NextList]_vars

\* Output under cancellation: two registered sessions that started together,
\* the first read by its stream readers, the second with its handle in the
\* slot and open to cancel_session; clients read the recent output.
InitRead ==
    /\ InitList
    /\ now = 0

NextRead ==
    \/ \E s \in Ids, t \in Streams : ChildWrite(s, t)
    \/ \E s \in Ids, t \in Streams : ReaderAppend(s, t)
    \/ \E s \in Ids \cup {NoSuchId}, lines \in 0..MaxRecent : RecentOutputCall(s, lines)
    \/ \E s \in Ids : CancelTake(s)
    \/ \E s \in Ids : CancelKillOk(s)
    \/ \E s \in Ids : CancelKillErr(s)

SpecRead == InitRead /\ [][NextRead]_vars

\* Cleanup under concurrency: two sessions that started together end or are
\* cancelled, the clock moves by five and a half or by six minutes, and the
\* cleanup_completed_sessions calls of several callers overlap.
NextCleanup ==
    \/ \E s \in Ids : ChildExit(s)
    \/ \E s \in Ids : MonitorTake(s)
    \/ \E s \in Ids, w \in WaitResults : MonitorFinalize(s, w)
    \/ \E s \in Ids : MonitorStats(s)
    \/ \E s \in Ids : CancelTake(s)
    \/ \E s \in Ids : CancelKillOk(s)
    \/ \E c \in Cleaners : CleanupScan(c)
    \/ \E c \in Cleaners : CleanupRemove(c)
    \/ Tick
    \/ TickShort

SpecCleanup == InitRead /\ [][NextCleanup]_vars

\* One websocket connection with a polling task registered on it: the
\* client sends texts and closes, while the session runs, writes and ends.
InitConn ==
    /\ InitStream
    /\ appended[1] = << >>

NextConn ==
    \/ \E text \in InboundTexts : WsRecvText(text)
    \/ WsRecvClose
    \/ \E s \in Ids : PollOutput(s)
    \/ \E s \in Ids : PollStatus(s)
    \/ \E s \in Ids : PollCancelled(s)
    \/ \E s \in Ids, t \in Streams : ChildWrite(s, t)
    \/ \E s \in Ids, t \in Streams : ReaderAppend(s, t)
    \/ \E s \in Ids : ChildExit(s)
    \/ \E s \in Ids, w \in WaitResults : MonitorFinalize(s, w)
    \/ \E s \in Ids : MonitorStats(s)

SpecConn == InitConn /\ [][NextConn]_vars

\* One websocket connection from its start: the client starts a session and
\* may cancel it on the connection, the session writes, ends and is polled,
\* the loop forwards the events, the client may close.  Nothing is old
\* enough to be cleaned up.
NextWs ==
    \/ WsRecvStart(1)
    \/ \E s \in Ids : WsStartCall(s)
    \/ \E s \in Ids : WsStartOk(s)
    \/ \E s \in Ids : WsStartErr(s)
    \/ \E s \in Ids : WsRecvCancel(s)
    \/ \E s \in Ids : WsCancelCall(s)
    \/ \E s \in Ids : WsCancelReply(s)
    \/ WsForward
    \/ WsRecvClose
    \/ \E s \in Ids : PollOutput(s)
    \/ \E s \in Ids : PollStatus(s)
    \/ \E s \in Ids : PollCancelled(s)
    \/ \E s \in Ids, t \in Streams : ChildWrite(s, t)
    \/ \E s \in Ids, t \in Streams : ReaderAppend(s, t)
    \/ \E s \in Ids : ChildExit(s)
    \/ \E s \in Ids : MonitorTake(s)
    \/ \E s \in Ids, w \in WaitResults : MonitorFinalize(s, w)
    \/ \E s \in Ids : MonitorStats(s)

SpecWs == Init /\ [][NextWs]_vars

\* Scheduling on the connection: the runtime runs the handler the loop
\* awaits, the polling tasks (their sleep elapses) and the lifecycle tasks,
\* an awaited kill returns, and the loop's select takes a message that waits
\* in the tx channel.  The client, the child and a pending stop signal are
\* under no obligation.
FairnessWs ==
    /\ WF_vars(WsForward)
    /\ \A s \in Ids :
         /\ WF_vars(WsStartCall(s))
         /\ WF_vars(WsStartOk(s))
         /\ WF_vars(WsStartErr(s))
         /\ WF_vars(WsCancelCall(s))
         /\ WF_vars(WsCancelReply(s))
         /\ WF_vars(PollOutput(s))
         /\ WF_vars(PollStatus(s))
         /\ WF_vars(MonitorTake(s))
         /\ WF_vars(\E w \in WaitResults : MonitorFinalize(s, w))
         /\ WF_vars(MonitorStats(s))

SpecWsFair == Init /\ [][NextWs]_vars /\ FairnessWs

\* The locks under every interleaving: each task runs one operation after
\* another, on either of two registered sessions.
NextLocks ==
    \/ \E t \in Tasks, op \in LockOps, s \in Ids : LockBegin(t, op, s)
    \/ \E t \in Tasks : LockAcquire(t)
    \/ \E l \in Locks : LockGrant(l)
    \/ \E t \in Tasks : LockDrop(t)
    \/ \E t \in Tasks : LockAwait(t)

SpecLocks == Init /\ [][NextLocks]_vars

\* ================================================================= claims
Min(a, b) == IF a <= b THEN a ELSE b

\* No cancel_session call and no lifecycle task is at work on session s.
Settled(s) == cancelPc[s] = "idle" /\ monPc[s] \in {"returned", "done"}

TerminalSets(s) == hist[s].setByCancel + hist[s].setByMonitor
ActiveDecrements(s) == hist[s].decByCancel + hist[s].decByMonitor

\* C1: for every session, under every interleaving of cancel_session calls
\* with the lifecycle task, the terminal status is set by exactly one of them
\* and active_sessions is decremented exactly once for that session: never
\* more than once, and exactly once when both have finished.
C1_ExactlyOneFinalizer ==
    \A s \in Ids :
      /\ TerminalSets(s) <= 1
      /\ ActiveDecrements(s) <= 1
      /\ Settled(s) => TerminalSets(s) = 1 /\ ActiveDecrements(s) = 1

\* C2: a cancel_session call that finds its session live (Starting or
\* Running) does not return false, whether or not the lifecycle task has
\* run; when its kill succeeds it returns true and leaves the session
\* Cancelled with completed_at set.  (A call whose kill fails returns the
\* error: that case is C13's.)
C2_CancelLiveSucceeds ==
    [][\A s \in Ids :
         /\ (CancelNotActive(s) /\ IsActive(sessions[s].status)) =>
               cancelResult'[s] # "false"
         /\ (CancelKillOk(s) /\ IsActive(cancelSaw[s])) =>
               /\ cancelResult'[s] = "true"
               /\ sessions'[s].status = "Cancelled"
               /\ sessions'[s].completed_at # None]_vars

\* C3: of all the cancel_session calls on one session id, at most one
\* returns true, at most one sets the status to Cancelled, and at most one
\* decrements active_sessions.
C3_AtMostOneCancelWins ==
    \A s \in Ids :
      /\ hist[s].cancelTrue <= 1
      /\ hist[s].setByCancel <= 1
      /\ hist[s].decByCancel <= 1

\* A cancel_session call returned true and a later one on the same id false.
C3_Witness ==
    \E s \in Ids : hist[s].cancelTrue = 1 /\ cancelResult[s] = "false"

\* C4: a cancel_session call on a registered session whose status is
\* terminal returns false (no error) and changes neither any session's
\* fields nor any counter.
C4_CancelTerminalIsNoop ==
    [][\A s \in Ids :
         ( /\ s \in Registered
           /\ IsTerminal(sessions[s].status)
           /\ CancelNotActive(s) \/ CancelTake(s) ) =>
         /\ cancelResult'[s] = "false"
         /\ sessions' = sessions
         /\ stats' = stats]_vars

\* The last cancel_session call on a session found it Completed or Failed,
\* exit code recorded, and returned false.
C4_Witness ==
    \E s \in Registered :
      /\ cancelSaw[s] \in {"Completed", "Failed"}
      /\ cancelResult[s] = "false"
      /\ sessions[s].exit_code # None

\* C5: in every reachable state, every registered session has completed_at
\* set if and only if its status is terminal.
C5_CompletedAtIffTerminal ==
    \A s \in Registered :
      (sessions[s].completed_at # None) <=> IsTerminal(sessions[s].status)

\* Two registered sessions: one Cancelled with its time set, one still
\* Running without.
C5_Witness ==
    \E s, r \in Registered :
      /\ sessions[s].status = "Cancelled" /\ sessions[s].completed_at # None
      /\ sessions[r].status = "Running" /\ sessions[r].completed_at = None

\* C6: in every reachable state, a registered session carries an exit_code
\* only with status Completed or Failed.
C6_ExitCodeOnlyWhenExited ==
    \A s \in Registered :
      sessions[s].exit_code # None => sessions[s].status \in {"Completed", "Failed"}

\* A session Failed with its exit code, beside a Cancelled one without.
C6_Witness ==
    \E s, r \in Registered :
      /\ sessions[s].status = "Failed" /\ sessions[s].exit_code = Some(1)
      /\ sessions[r].status = "Cancelled" /\ sessions[r].exit_code = None

\* C7: no step changes the status, completed_at or exit_code of a session
\* whose status is terminal, for as long as it is registered.
C7_TerminalIsFinal ==
    [][\A s \in Registered :
         (IsTerminal(sessions[s].status) /\ s \in DOMAIN sessions') =>
         /\ sessions'[s].status = sessions[s].status
         /\ sessions'[s].completed_at = sessions[s].completed_at
         /\ sessions'[s].exit_code = sessions[s].exit_code]_vars

\* A session was cancelled at time 0; later, after the clock moved, its
\* lifecycle task ran and ended, and it is still as the cancel left it.
C7_Witness ==
    \E s \in Registered :
      /\ sessions[s].status = "Cancelled"
      /\ sessions[s].completed_at = Some(0)
      /\ now > 0
      /\ monPc[s] = "returned"

\* The lines of the SessionOutput messages sent for session s, in order.
Delivered(s) ==
    LET IsOutput(m) == m.type = "session_output" /\ m.session_id = s
        msgs == SelectSeq(outbox, IsOutput)
    IN [i \in 1..Len(msgs) |-> msgs[i].line]

\* C8: the polling task sends exactly one SessionOutput for every line
\* appended to the session's buffer, in append order, none skipped or
\* repeated: what it has sent is what had been appended when it last read
\* the buffer, also past 1000 lines.
C8_EveryLineDeliveredOnce ==
    \A s \in Ids :
      pollPc[s] # "none" => Delivered(s) = SubSeq(appended[s], 1, polledUpTo[s])

\* C9: the length of a session's output buffer, as any reader can see it,
\* never exceeds 1000, however many lines the two readers append.
C9_BufferBounded ==
    \A s \in Ids : Len(output_buffer[s]) <= BufferCap

\* More than 1000 lines were appended and the buffer is full.
C9_Witness ==
    \E s \in Ids : Len(appended[s]) > BufferCap /\ Len(output_buffer[s]) = BufferCap

\* C10: after N lines were appended by the two readers in any interleaving,
\* the buffer holds exactly the last min(N, 1000) of them in append order;
\* for N > 1000 its oldest entry is the (N - 1000 + 1)-th appended line.
C10_BufferIsLastLines ==
    \A s \in Ids :
      LET N == Len(appended[s]) IN
        /\ output_buffer[s] = SubSeq(appended[s], N - Min(N, BufferCap) + 1, N)
        /\ N > BufferCap => output_buffer[s][1] = appended[s][N - BufferCap + 1]

\* 1002 lines or more were appended, lines of both streams among the last.
C10_Witness ==
    \E s \in Ids :
      /\ Len(appended[s]) >= BufferCap + 2
      /\ output_buffer[s][BufferCap][1] = "[STDERR]"
      /\ output_buffer[s][BufferCap - 1][1] = "[STDOUT]"

\* The sessions of a registry whose status is Starting or Running.
ActiveIn(reg) == {s \in DOMAIN reg : IsActive(reg[s].status)}

\* C11: when cleanup_completed_sessions has removed at least one session,
\* the active_sessions it leaves equals the number of sessions remaining in
\* the registry whose status is Starting or Running.
C11_RecountIsTrueActiveCount ==
    [][(\E c \in Cleaners : CleanupRemove(c)) =>
         stats'.active_sessions = Cardinality(ActiveIn(sessions'))]_vars

\* C12: cleanup_completed_sessions removes a session only if its status is
\* terminal and its completed_at lies more than the five minutes of grace
\* in the past; every other session stays registered with its status,
\* completed_at, exit_code and output buffer unchanged.
C12_CleanupRemovesOnlyOldTerminal ==
    [][(\E c \in Cleaners : CleanupScan(c) \/ CleanupRemove(c)) =>
         \A s \in Registered :
           IF s \in DOMAIN sessions'
             THEN /\ sessions'[s].status = sessions[s].status
                  /\ sessions'[s].completed_at = sessions[s].completed_at
                  /\ sessions'[s].exit_code = sessions[s].exit_code
                  /\ output_buffer'[s] = output_buffer[s]
             ELSE /\ IsTerminal(sessions[s].status)
                  /\ sessions[s].completed_at # None
                  /\ now - sessions[s].completed_at[1] > GraceMinutes * 60]_vars

\* The last cleanup removed one session and left the other alone, which
\* has been terminal for less than the grace period.
C12_Witness ==
    /\ cleaned[1] = 1
    /\ cleanupPc[1] = "idle"
    /\ \E s \in Registered :
         /\ IsTerminal(sessions[s].status)
         /\ sessions[s].completed_at = Some(now)

\* C13: when cancel_session took the handle and the kill fails, the call
\* returns the error and the session's status and completed_at are what
\* they were when the call began.
C13_FailedKillLeavesSession ==
    [][\A s \in Ids :
         CancelKillErr(s) =>
           /\ cancelResult'[s] = "error"
           /\ sessions'[s].status = cancelSaw[s]
           /\ sessions'[s].completed_at = cancelSawAt[s]]_vars

\* C14: a get_session(id) issued right after start_session returned id
\* resolves to a session whose status is Starting or Running, whatever the
\* lifecycle task and the child have done meanwhile.  (That ids of distinct
\* calls differ is FreshId.)
C14_FreshSessionIsLive ==
    \A s \in Ids :
      gotAfter[s] # None =>
        /\ gotAfter[s][1] # None
        /\ IsActive(gotAfter[s][1][1])

\* C16: when start_session fails to spawn the child it returns the error
\* and has no other effect: no session is inserted, the counters are
\* unchanged, no lifecycle task and no stream reader is started, then or
\* later.
C16_SpawnFailureHasNoEffect ==
    [][\A s \in Ids :
         /\ StartSpawnFail(s) =>
               /\ startPc'[s] = "spawn_failed"
               /\ sessions' = sessions
               /\ stats' = stats
               /\ monPc' = monPc
         /\ startPc'[s] = "spawn_failed" =>
               /\ s \notin DOMAIN sessions'
               /\ proc'[s] = "none"
               /\ monPc'[s] = "none"]_vars

\* The first start_session failed to spawn and was answered; the second
\* one succeeded and is the only session counted.
C16_Witness ==
    /\ startPc[1] = "spawn_failed"
    /\ reply[1] = Some(HttpSpawnError)
    /\ Registered = {2}
    /\ stats.total_sessions = 1

\* C17: a create-session request, over HTTP or the websocket, whose
\* project_path does not exist is rejected before any process is spawned:
\* nothing is registered, no counter changes, no task starts, and the answer
\* differs from the one given for a spawn error on the same channel.
C17_InvalidPathRejectedFirst ==
    [][\A s \in Ids :
         /\ (HttpStartInvalid(s) \/ WsStartInvalid(s)) =>
               /\ sessions' = sessions
               /\ stats' = stats
               /\ proc' = proc
               /\ monPc' = monPc
         /\ HttpStartInvalid(s) =>
               reply'[s] # None /\ reply'[s] # Some(HttpSpawnError)
         /\ WsStartInvalid(s) =>
               reply'[s] # None /\ reply'[s] # Some(WsSpawnError)
         /\ startPc'[s] = "rejected" =>
               s \notin DOMAIN sessions' /\ proc'[s] = "none" /\ monPc'[s] = "none"]_vars

\* One request was rejected for its path over the websocket, another failed
\* to spawn over the websocket: two different error events.
C17_Witness ==
    \E s, r \in Ids :
      /\ startPc[s] = "rejected" /\ reply[s] = Some(WsValidationError)
      /\ startPc[r] = "spawn_failed" /\ reply[r] = Some(WsSpawnError)
      /\ Registered = {}

\* The child of s is gone: it ended on its own or was killed.
ProcessGone(s) == proc[s] \in {"exited", "killed", "reaped"}

\* C15: under fair scheduling every registered session whose child is gone
\* reaches a terminal status (or had one when cleanup removed it); when the
\* wait on the child fails the session is finalized as Failed with
\* completed_at set.
C15_GoneProcessIsFinalized ==
    /\ \A s \in Ids :
         (s \in Registered /\ ProcessGone(s)) ~>
           (s \notin Registered \/ IsTerminal(sessions[s].status))
    /\ [][\A s \in Registered :
            MonitorFinalize(s, "wait_err") =>
              /\ sessions'[s].status = "Failed"
              /\ sessions'[s].completed_at = Some(now)]_vars

\* A child ended, its lifecycle task finished, and the session is Failed
\* with its time set and no exit code.
C15_Witness ==
    \E s \in Registered :
      /\ proc[s] = "reaped"
      /\ monPc[s] = "done"
      /\ sessions[s].status = "Failed"
      /\ sessions[s].completed_at # None
      /\ sessions[s].exit_code = None

\* C18: a session leaves the registry only in a step of
\* cleanup_completed_sessions, and never while its status is Starting or
\* Running: from its insertion until then get_session(id) resolves.
C18_OnlyCleanupRemoves ==
    [][\A s \in Registered :
         IF s \in DOMAIN sessions'
           THEN GetSession(s)' # None
           ELSE (\E c \in Cleaners : CleanupRemove(c)) /\ ~IsActive(sessions[s].status)]_vars

\* A cleanup removed one session and left the other, which is as old but
\* still running.
C18_Witness ==
    /\ cleaned[1] = 1
    /\ \E s, r \in Ids :
         /\ startPc[s] = "done" /\ s \notin Registered
         /\ r \in Registered
         /\ sessions[r].status = "Running"
         /\ NumMinutes(now - sessions[r].started_at) > GraceMinutes

\* start_session has added s to the counters.
Counted(s) == startPc[s] \in {"counted", "done"}

\* C19: the counters change together with the status: no state that
\* get_session / list_sessions and get_stats can observe has a session with
\* a terminal status that was counted and not yet taken off active_sessions,
\* nor a registered Running session that the counters do not count yet.
C19_StatsMoveWithStatus ==
    \A s \in Registered :
      /\ IsTerminal(sessions[s].status) => ~(Counted(s) /\ ActiveDecrements(s) = 0)
      /\ IsActive(sessions[s].status) => Counted(s)

\* C20: an inbound text that is malformed or carries an unknown tag is
\* answered with an error event of code PARSE_ERROR and does not close the
\* connection: the loop stays open for later messages and the polling tasks
\* registered on the connection are left running.
C20_ParseErrorKeepsConnection ==
    [][\A text \in InboundTexts :
         (WsRecvText(text) /\ ParseClientMessage(text) = None) =>
           /\ Len(wsSent') = Len(wsSent) + 1
           /\ wsSent'[Len(wsSent')].type = "error"
           /\ wsSent'[Len(wsSent')].code = "PARSE_ERROR"
           /\ wsOpen'
           /\ pollPc' = pollPc]_vars

\* Two texts in a row were answered with PARSE_ERROR, the connection is
\* open, and the polling task has sent output and is still polling.
C20_Witness ==
    /\ Len(wsSent) = 2
    /\ wsOpen
    /\ pollPc[1] = "sleep"
    /\ Len(Delivered(1)) = 2

\* The SessionCompleted events sent for session s.
Completions(s) ==
    LET IsCompletion(m) == m.type = "session_completed" /\ m.session_id = s
    IN SelectSeq(outbox, IsCompletion)

\* C21: closing the connection sends a stop signal to every polling task
\* registered on it and neither cancels nor kills a session: status, handle
\* and counters are as before the close, and the child runs on.
C21_CloseStopsPollersOnly ==
    [][WsRecvClose =>
         /\ \A s \in Ids : pollPc[s] # "none" => s \in cancel_rx'
         /\ sessions' = sessions
         /\ stats' = stats
         /\ proc' = proc
         /\ cancelPc' = cancelPc]_vars

\* The connection was closed and the polling task stopped on its signal
\* before the session ended; the session then completed by natural exit.
C21_Witness ==
    /\ ~wsOpen
    /\ pollPc[1] = "stopped"
    /\ 1 \notin cancel_rx
    /\ Completions(1) = << >>
    /\ sessions[1].status = "Completed"
    /\ sessions[1].exit_code = Some(0)
    /\ stats.completed_sessions = 1

\* C22: for each session the polling task sends at most one
\* SessionCompleted, sends it at the first poll that finds a terminal
\* status, and sends nothing for that session afterwards: the completion is
\* the last message of the session and the task has stopped.
C22_SingleCompletionThenSilence ==
    [][\A s \in Ids :
         /\ Len(Completions(s)') <= 1
         /\ Completions(s) # << >> =>
               /\ pollPc'[s] = "stopped"
               /\ Delivered(s)' = Delivered(s)
               /\ Completions(s)' = Completions(s)
         /\ ( /\ PollStatus(s)
              /\ wsOpen
              /\ s \in Registered
              /\ IsTerminal(sessions[s].status) ) =>
               /\ Len(Completions(s)') = 1
               /\ pollPc'[s] = "stopped"]_vars

\* The polling task delivered output, then the completion of a failed
\* session, and stopped; lines written later stay in the buffer unsent.
C22_Witness ==
    /\ Len(Completions(1)) = 1
    /\ Completions(1)[1].status = "Failed"
    /\ pollPc[1] = "stopped"
    /\ Len(Delivered(1)) >= 1
    /\ Len(appended[1]) > Len(Delivered(1))

\* The ids of a list of infos, in order.
IdsOf(infos) == [i \in 1..Len(infos) |-> infos[i].id]

NewestFirst(infos) ==
    \A i, j \in 1..Len(infos) : i < j => infos[i].started_at >= infos[j].started_at

\* C23: list_sessions returns every registered session exactly once, latest
\* start first; list_active_sessions returns exactly those entries of that
\* list whose status is Starting or Running, in the same order.
C23_ListsOrderedAndComplete ==
    [][ListEnd =>
         LET full == SortNewestFirst(result) IN
           /\ NewestFirst(result')
           /\ \A i, j \in 1..Len(result') : i # j => result'[i].id # result'[j].id
           /\ ~listFilter =>
                 {result'[i].id : i \in 1..Len(result')} = Registered
           /\ listFilter =>
                 /\ \A i \in 1..Len(result') : IsActive(result'[i].status)
                 /\ {result'[i].id : i \in 1..Len(result')} =
                      {result[i].id : i \in {j \in 1..Len(result) : IsActive(result[j].status)}}
                 /\ IdsOf(result') = IdsOf(SelectSeq(full, LAMBDA x : IsActive(x.status)))]_vars

\* list_sessions returned both sessions, the later start first, one of them
\* ended; a call of list_active_sessions would keep only the other.
C23_Witness ==
    /\ listPc = "idle"
    /\ ~listFilter
    /\ Len(result) = 2
    /\ result[1].id = 2 /\ result[1].started_at > result[2].started_at
    /\ result[1].status = "Running" /\ result[2].status = "Completed"

\* The status session s had after the first k status changes of the log.
StatusAt(s, k) ==
    LET changes == {i \in 1..Len(listLog) : listLog[i].id = s}
        done == {i \in changes : i <= k}
        ahead == {i \in changes : i > k}
    IN IF done # {}
         THEN listLog[CHOOSE i \in done : \A j \in done : j <= i].to
         ELSE IF ahead # {}
           THEN listLog[CHOOSE i \in ahead : \A j \in ahead : i <= j].from
           ELSE sessions[s].status

\* C27: what list_sessions returns is a snapshot: there is one instant of
\* the call at which every session had the status returned for it.
C27_ListIsSnapshot ==
    [][ListEnd =>
         \E k \in 0..Len(listLog) :
           \A i \in 1..Len(result) : result[i].status = StatusAt(result[i].id, k)]_vars

\* C25: when the lifecycle task's wait returns it sets the status Completed
\* for a successful exit and Failed otherwise (a failed wait included),
\* records the exit code when there is one, sets completed_at, takes one off
\* active_sessions and adds one to exactly one of completed_sessions and
\* failed_sessions, the one that matches the status it set.
C25_WaitReturnFinalizes ==
    [][\A s \in Ids :
         /\ \A w \in WaitResults :
              (MonitorFinalize(s, w) /\ s \in Registered) =>
                /\ sessions'[s].status = IF w = "exit_ok" THEN "Completed" ELSE "Failed"
                /\ sessions'[s].completed_at = Some(now)
                /\ w = "exit_ok" => sessions'[s].exit_code = Some(0)
                /\ w = "exit_fail" => sessions'[s].exit_code = Some(1)
                /\ w \in {"exit_signal", "wait_err"} => sessions'[s].exit_code = None
                /\ final_status'[s] = sessions'[s].status
         /\ MonitorStats(s) =>
                /\ stats'.active_sessions = stats.active_sessions - 1
                /\ stats'.total_sessions = stats.total_sessions
                /\ stats'.completed_sessions - stats.completed_sessions =
                     IF final_status[s] = "Completed" THEN 1 ELSE 0
                /\ stats'.failed_sessions - stats.failed_sessions =
                     IF final_status[s] = "Failed" THEN 1 ELSE 0]_vars

\* C26: when a cancel_session call took the handle before the lifecycle
\* task could, the task changes nothing and ends: status, completed_at,
\* exit_code and every counter stay as the canceller set them.
C26_MonitorYieldsToCanceller ==
    [][\A s \in Registered :
         (MonitorTake(s) /\ hist[s].setByCancel = 1) =>
           /\ sessions' = sessions
           /\ stats' = stats
           /\ monPc'[s] = "returned"]_vars

\* The canceller finished first; the lifecycle task came, found no handle
\* and ended; the session is as the canceller left it and is not counted
\* as failed or completed.
C26_Witness ==
    \E s \in Registered :
      /\ hist[s].cancelTrue = 1
      /\ monPc[s] = "returned"
      /\ sessions[s].status = "Cancelled"
      /\ sessions[s].exit_code = None
      /\ stats.completed_sessions = 0
      /\ stats.failed_sessions = 0
      /\ stats.total_sessions = 1

\* C24: get_recent_output(id, n) returns the last min(n, L) entries of the
\* buffer, L its length, in buffer order, and no error for n > L;
\* get_session_output and get_recent_output return None exactly for an id
\* that is not registered.
C24_RecentOutputIsTail ==
    [][\A s \in Ids \cup {NoSuchId}, n \in 0..MaxRecent :
         RecentOutputCall(s, n) =>
           /\ (recent'[1].output = None) <=> (s \notin Registered)
           /\ (GetSessionOutput(s) = None) <=> (s \notin Registered)
           /\ s \in Registered =>
                 LET L == Len(output_buffer[s]) IN
                   recent'[1].output =
                     Some(SubSeq(output_buffer[s], L - Min(n, L) + 1, L))]_vars

\* get_recent_output(1, 5) on a buffer of three lines returned the three.
C24_Witness ==
    /\ recent # None
    /\ recent[1].id = 1
    /\ recent[1].lines = 5
    /\ Len(output_buffer[1]) = 3
    /\ recent[1].output = Some(output_buffer[1])

C29_CleanedCountsRemovals ==
    (\A c \in Cleaners : cleanupPc[c] = "idle") => cleanedSum = removedSum

\* The terminal sessions that are past the grace period at time t.
PastGrace(t) ==
    {s \in Registered :
       /\ IsTerminal(sessions[s].status)
       /\ sessions[s].completed_at # None
       /\ t - sessions[s].completed_at[1] > GraceMinutes * 60}

\* C30: whenever a scan of cleanup_completed_sessions can run, its test
\* selects for removal every registered terminal session whose completed_at
\* lies more than five minutes back, one of 5 min 30 s included.
C30_CleanupRemovesAllPastGrace ==
    ( /\ \E c \in Cleaners : cleanupPc[c] = "idle"
      /\ \A s \in Registered : ~SessionLocked(s) ) =>
        PastGrace(now) \subseteq {s \in Registered : ShouldRemove(sessions[s], now)}

\* No supervisor operation is between two of its steps and no lifecycle task
\* is at a step: every start_session call has returned, no cancel_session
\* awaits its kill, no cleanup is between scan and removal, and each lifecycle
\* task is either over or waiting for a child that still runs.
Quiescent ==
    /\ \A s \in Ids : startPc[s] \in {"idle", "spawn_failed", "rejected", "done"}
    /\ \A s \in Ids : cancelPc[s] = "idle"
    /\ \A c \in Cleaners : cleanupPc[c] = "idle"
    /\ \A s \in Ids :
         \/ monPc[s] \in {"none", "returned", "done"}
         \/ monPc[s] = "wait" /\ proc[s] = "running"

\* C31: in every quiescent state active_sessions equals the number of
\* registered sessions whose status is Starting or Running, whatever the
\* interleaving of start_session, cancel_session and
\* cleanup_completed_sessions was, a cancel whose kill failed included.
C31_QuiescentActiveIsExact ==
    Quiescent => stats.active_sessions = Cardinality(ActiveIn(sessions))

\* C32: in every reachable state a session whose handle slot is occupied has
\* status Running and no completed_at; put the other way round, a session
\* with a terminal status has an empty slot.
C32_OccupiedSlotMeansRunning ==
    \A s \in Registered :
      /\ sessions[s].child =>
            sessions[s].status = "Running" /\ sessions[s].completed_at = None
      /\ IsTerminal(sessions[s].status) => ~sessions[s].child

\* One session was cancelled, the kill failed, and its slot is empty; the
\* other is registered and counted with its handle still in the slot.
C32_Witness ==
    \E s, r \in Registered :
      /\ sessions[s].status = "Cancelled" /\ ~sessions[s].child
      /\ cancelResult[s] = "error"
      /\ sessions[r].child /\ startPc[r] = "counted"

\* C33: the only status changes of a registered session are Running to
\* Completed, Running to Failed and Running to Cancelled; no session is in
\* the registry with status Starting, and Terminated is never assigned.
C33_OnlyRunningToTerminal ==
    /\ [](\A s \in Registered : sessions[s].status \notin {"Starting", "Terminated"})
    /\ [][\A s \in Registered \cap DOMAIN sessions' :
            sessions'[s].status # sessions[s].status =>
              /\ sessions[s].status = "Running"
              /\ sessions'[s].status \in {"Completed", "Failed", "Cancelled"}]_vars

\* One session went from Running to Cancelled by a cancel_session call, the
\* other from Running to Failed by its lifecycle task, and a later
\* cancel_session call on the second changed nothing.
C33_Witness ==
    \E s, r \in Registered :
      /\ sessions[s].status = "Cancelled" /\ hist[s].setByCancel = 1
      /\ sessions[r].status = "Failed" /\ hist[r].setByMonitor = 1
      /\ cancelSaw[r] = "Failed" /\ cancelResult[r] = "false"

\* The sessions whose lifecycle task went through its whole finalization
\* with the given final status.
FinalizedAs(status) ==
    {s \in Ids : monPc[s] = "done" /\ hist[s].finalized = status}

C36_NothingLeftAtCompletion ==
    \A s \in Ids :
      Completions(s) # << >> => Delivered(s) = appended[s]

\* Positions in the tx channel of the events of one type sent for session s.
EventsAt(type, s) ==
    {i \in 1..Len(outbox) : outbox[i].type = type /\ outbox[i].session_id = s}

\* C38: a connection gets at most one terminal notification per session:
\* when a cancel_session message on the connection that started the session
\* succeeds and SessionCancelled is sent, no SessionCompleted for that
\* session is sent on the connection, however the handler and the session's
\* polling task interleave.
C38_OneTerminalNotification ==
    \A s \in Ids :
      EventsAt("session_cancelled", s) # {} => EventsAt("session_completed", s) = {}

\* C39: on a connection the SessionStarted of a session precedes every
\* SessionOutput and SessionCompleted of that session, and a polling task
\* exists only for a session whose start_session call has returned Ok.
C39_StartedComesFirst ==
    \A s \in Ids :
      /\ \A i \in EventsAt("session_output", s) \cup EventsAt("session_completed", s) :
            \E j \in EventsAt("session_started", s) : j < i
      /\ pollPc[s] # "none" => startPc[s] = "done" /\ s \in Registered
      /\ s \in active_sessions => startPc[s] = "done"

\* The channel holds SessionStarted, then two lines of output, then the
\* SessionCompleted of the session, and the loop has forwarded them all.
C39_Witness ==
    /\ Len(outbox) = 4
    /\ outbox[1] = SessionStarted(1)
    /\ outbox[2].type = "session_output" /\ outbox[3].type = "session_output"
    /\ outbox[4].type = "session_completed"
    /\ wsFwd = 4

\* The loop has written to the socket a SessionCompleted that carries the
\* status and the exit code session s has.
CompletionForwarded(s) ==
    /\ s \in Registered
    /\ \E i \in 1..wsFwd :
         /\ outbox[i].type = "session_completed"
         /\ outbox[i].session_id = s
         /\ outbox[i].status = sessions[s].status
         /\ outbox[i].exit_code = sessions[s].exit_code

\* The connection has received a cancel_session message for s.
CancelAsked(s) ==
    \/ wsPc = << "cancel", s >>
    \/ pollPc[s] # "none" /\ s \notin active_sessions

\* C37: for a session started on a connection that stays open and never
\* sends a cancel_session message for it, once the session has a terminal
\* status a SessionCompleted with that status and exit code is eventually
\* sent on the connection, under fair scheduling.
C37_CompletionEventuallySent ==
    \A s \in Ids :
      (s \in Registered /\ IsTerminal(sessions[s].status)) ~>
        (CompletionForwarded(s) \/ ~wsOpen \/ CancelAsked(s))

\* The session failed with exit code 1; the connection is open, no cancel
\* was asked for, and the loop has forwarded the SessionCompleted with
\* status Failed and that code after two lines of output.
C37_Witness ==
    /\ wsOpen
    /\ ~CancelAsked(1)
    /\ CompletionForwarded(1)
    /\ sessions[1].status = "Failed"
    /\ sessions[1].exit_code = Some(1)
    /\ Len(Delivered(1)) = 2
    /\ wsFwd = Len(outbox)

\* The tasks t waits for directly: whoever holds the lock t queues for with
\* a guard that excludes t's, and whoever is ahead of t in the queue.
WaitsFor(t) ==
    {u \in Tasks :
       \E l \in Locks : \E i \in 1..Len(lkQueue[l]) :
         /\ lkQueue[l][i][1] = t
         /\ \/ \E h \in lkHeld[l] :
                 h[1] = u /\ (h[2] = "write" \/ lkQueue[l][i][2] = "write")
            \/ \E j \in 1..(i - 1) : lkQueue[l][j][1] = u}

RECURSIVE WaitsForWithin(_, _)
\* The tasks t waits for through a chain of at most n waits.
WaitsForWithin(t, n) ==
    IF n = 0 THEN {}
    ELSE LET near == WaitsForWithin(t, n - 1) \cup WaitsFor(t)
         IN near \cup UNION {WaitsFor(u) : u \in near}

\* C34: no cyclic lock wait: in no reachable state of any interleaving of
\* start, get, list, cancel, output queries, stats, cleanup, lifecycle
\* tasks, stream readers and polling tasks does a task wait, through a chain
\* of waits for the registry lock, a session lock, a buffer lock or the
\* statistics lock, for itself.
C34_NoCyclicLockWait ==
    \A t \in Tasks : t \notin WaitsForWithin(t, MaxTasks)

\* A chain of waits that does not close: a cancel_session call holds the
\* registry and its session across the kill, a cleanup waits for the
\* registry's write guard, and a get_session_output waits behind the cleanup.
C34_Witness ==
    \E a, b, c \in Tasks :
      /\ lkOp[a] = "cancel" /\ StepOf(a).a = "await"
      /\ << a, "read" >> \in lkHeld[RegistryLock]
      /\ lkOp[b] = "cleanup" /\ Queued(b, RegistryLock) /\ WaitsFor(b) = {a}
      /\ lkOp[c] = "output" /\ Queued(c, RegistryLock) /\ WaitsFor(c) = {b}

====
